---- MODULE Spec2Model ----
(***************************************************************************)
(* PolicyLens: the facts resolution and fallback pipeline.                 *)
(*                                                                         *)
(* backend/services/facts_db.py is modelled on its "Updated upstream"      *)
(* side of the merge markers (the side with _schema key_map / field_map    *)
(* and the markdown fallback, which is the side lookup_facts' shared tail, *)
(* lines 318-329, needs: it calls _lookup()).                              *)
(*                                                                         *)
(* Python strings are TLA+ strings; characters are one-character strings   *)
(* taken with SubSeq.  None is the model value None.  A confidence is an   *)
(* integer number of hundredths (0.8 is 80).                               *)
(***************************************************************************)
EXTENDS Integers, Sequences, FiniteSets, TLC

VARIABLES
    data,       \* the data/ directory: facts files and rules markdown files
    pc,         \* "idle" | "classified" | "done"
    call,       \* the call in flight or last made
    cls,        \* classify_intent's outcome for the query in flight
    result,     \* what the last call returned or raised
    trace       \* what the last call did: facts loads, search_md calls, ...

vars == <<data, pc, call, cls, result, trace>>

None == "<None>"

----------------------------------------------------------------------------
(* Python string operations *)

Min(a, b) == IF a < b THEN a ELSE b
Max(a, b) == IF a > b THEN a ELSE b

Ch(s, i) == SubSeq(s, i, i)

\* s[:n]
Prefix(s, n) == SubSeq(s, 1, Min(n, Len(s)))

\* s[i-1:] for a 1-based i
From(s, i) == SubSeq(s, i, Len(s))

UpperChars == <<"A","B","C","D","E","F","G","H","I","J","K","L","M",
                "N","O","P","Q","R","S","T","U","V","W","X","Y","Z">>
LowerChars == <<"a","b","c","d","e","f","g","h","i","j","k","l","m",
                "n","o","p","q","r","s","t","u","v","w","x","y","z">>

LowerChar(c) ==
    IF \E i \in 1..26 : UpperChars[i] = c
    THEN LowerChars[CHOOSE i \in 1..26 : UpperChars[i] = c]
    ELSE c

IsAlpha(c) == \E i \in 1..26 : UpperChars[i] = c \/ LowerChars[i] = c

IsSpace(c) == c \in {" ", "\n", "\t"}

\* str.lower(), halving the string to keep the recursion shallow
RECURSIVE Lower(_)
Lower(s) ==
    IF Len(s) <= 1 THEN LowerChar(s)
    ELSE Lower(SubSeq(s, 1, Len(s) \div 2)) \o Lower(SubSeq(s, Len(s) \div 2 + 1, Len(s)))

\* str.startswith(p)
StartsWith(s, p) == Len(p) <= Len(s) /\ SubSeq(s, 1, Len(p)) = p

\* p in s
Contains(s, p) == \E i \in 1..(Len(s) - Len(p) + 1) : SubSeq(s, i, i + Len(p) - 1) = p

\* str.find(p), 1-based; 0 when absent
Find(s, p) ==
    LET at == {i \in 1..(Len(s) - Len(p) + 1) : SubSeq(s, i, i + Len(p) - 1) = p}
    IN  IF at = {} THEN 0 ELSE CHOOSE i \in at : \A j \in at : i <= j

\* str.replace(a, b): every non-overlapping occurrence, left to right
RECURSIVE Replace(_, _, _)
Replace(s, a, b) ==
    IF Len(s) < Len(a) THEN s
    ELSE IF SubSeq(s, 1, Len(a)) = a THEN b \o Replace(From(s, Len(a) + 1), a, b)
    ELSE Ch(s, 1) \o Replace(From(s, 2), a, b)

RECURSIVE LStrip(_)
LStrip(s) == IF s # "" /\ IsSpace(Ch(s, 1)) THEN LStrip(From(s, 2)) ELSE s

RECURSIVE RStrip(_)
RStrip(s) == IF s # "" /\ IsSpace(Ch(s, Len(s))) THEN RStrip(SubSeq(s, 1, Len(s) - 1)) ELSE s

\* str.strip()
Strip(s) == LStrip(RStrip(s))

\* sep.join(parts)
RECURSIVE Join(_, _)
Join(sep, parts) ==
    IF parts = <<>> THEN ""
    ELSE IF Len(parts) = 1 THEN parts[1]
    ELSE parts[1] \o sep \o Join(sep, Tail(parts))

\* s.split(sep) for a one-character sep
RECURSIVE Split(_, _)
Split(s, sep) ==
    LET i == Find(s, sep) IN
    IF i = 0 THEN <<s>>
    ELSE <<SubSeq(s, 1, i - 1)>> \o Split(From(s, i + 1), sep)

\* [f(x) for x in seq if keep(x)]
RECURSIVE SelectSeqIdx(_, _)
SelectSeqIdx(seq, keep) ==
    IF seq = <<>> THEN <<>>
    ELSE (IF keep[1] THEN <<seq[1]>> ELSE <<>>) \o SelectSeqIdx(Tail(seq), Tail(keep))

\* dict.get(k, d)
Get(e, k, d) == IF k \in DOMAIN e THEN e[k] ELSE d

\* Python truthiness of an Optional[str]
Truthy(s) == s # None /\ s # ""

\* The element of a one-element set.  The({e : x \in {v}}) is e with the
\* local x assigned v once: a local variable of the code that is assigned a
\* call's result and then read several times.
The(S) == CHOOSE v \in S : TRUE

----------------------------------------------------------------------------
(* The data/ directory.                                                    *)
(*   data.facts : file name -> parsed JSON of a *_facts.json file           *)
(*   data.rules : file name -> the lines of a *_rules.md file               *)
(* A JSON object is a function from keys to values.  A category value is   *)
(* [list |-> TRUE, items |-> <<...>>] or [list |-> FALSE] (not a list); an *)
(* item is [dict |-> TRUE, f |-> <fields>] or [dict |-> FALSE].            *)

List(items) == [list |-> TRUE, items |-> items]
NotAList == [list |-> FALSE]
Dict(f) == [dict |-> TRUE, f |-> f]
NotADict == [dict |-> FALSE]

\* sorted(DATA_DIR.glob("*_facts.json")): the file names the model uses, sorted
FileOrder == <<"_facts.json", "cpsc_330_facts.json", "mds_facts.json">>

UpperChar(c) ==
    IF \E i \in 1..26 : LowerChars[i] = c
    THEN UpperChars[CHOOSE i \in 1..26 : LowerChars[i] = c]
    ELSE c

\* str.upper()
RECURSIVE Upper(_)
Upper(s) ==
    IF Len(s) <= 1 THEN UpperChar(s)
    ELSE Upper(SubSeq(s, 1, Len(s) \div 2)) \o Upper(SubSeq(s, Len(s) \div 2 + 1, Len(s)))

\* config._filename_to_display
_filename_to_display(filename) ==
    LET base == Replace(Replace(filename, "_facts.json", ""), ".json", "")
        i    == Find(base, "_")
    IN  IF StartsWith(base, "cpsc")
        THEN (IF i > 0 THEN "CPSC " \o From(base, i + 1) ELSE "CPSC")
        ELSE Upper(Replace(base, "_", " "))

\* the display name discover_courses gives one file
DisplayOf(d, filename) ==
    LET json   == d.facts[filename]
        schema == Get(json, "_schema", [x \in {} |-> 0])
        name   == Get(schema, "course_name", "")
    IN  IF name # "" THEN name ELSE _filename_to_display(filename)

\* config.discover_courses: the dict as its items in insertion order.
\* A display name met again keeps its first position and takes the later file.
RECURSIVE DiscoverFrom(_, _, _)
DiscoverFrom(d, files, acc) ==
    IF files = <<>> THEN acc
    ELSE IF files[1] \notin DOMAIN d.facts THEN DiscoverFrom(d, Tail(files), acc)
    ELSE The({ LET item == [display |-> disp, filename |-> files[1]]
               IN  IF \E i \in 1..Len(acc) : acc[i].display = disp
                   THEN DiscoverFrom(d, Tail(files),
                            [i \in 1..Len(acc) |->
                                IF acc[i].display = disp THEN item ELSE acc[i]])
                   ELSE DiscoverFrom(d, Tail(files), Append(acc, item))
               : disp \in {DisplayOf(d, files[1])} })

discover_courses(d) == DiscoverFrom(d, FileOrder, <<>>)

get_course_facts_map(d) == discover_courses(d)

\* m.get(course)
MapGet(m, course) ==
    IF \E i \in 1..Len(m) : m[i].display = course
    THEN m[CHOOSE i \in 1..Len(m) : m[i].display = course].filename
    ELSE None

\* config.get_default_course: next(iter(m)) if m else None
get_default_course(d) ==
    The({ IF m # <<>> THEN m[1].display ELSE None : m \in {get_course_facts_map(d)} })

\* str(course) inside an f-string
StrOf(course) == IF course = None THEN "None" ELSE course

\* facts_db._get_facts_path: the file name, or the FileNotFoundError raised.
\* (path.exists() is true of every file the directory scan just listed.)
_get_facts_path(d, course) ==
    The({ LET own      == IF Truthy(course) THEN MapGet(m, course) ELSE None
              filename == IF Truthy(own) THEN own
                          ELSE IF Truthy(default) THEN MapGet(m, default) ELSE None
          IN  IF ~Truthy(filename)
              THEN [ok |-> FALSE, exc |-> "FileNotFoundError",
                    msg |-> "No facts file for course '" \o StrOf(course)
                                \o "'. Add a *_facts.json file to data/."]
              ELSE [ok |-> TRUE, filename |-> filename]
          : m \in {get_course_facts_map(d)}, default \in {get_default_course(d)} })

\* config.DEFAULT_KEY_MAP
DEFAULT_KEY_MAP ==
    [due_date |-> "due_dates", instructor_info |-> "instructors",
     coordinator |-> "coordinator", ta_list |-> "tas", links |-> "links"]

EmptyMap == [x \in {} |-> 0]

\* {**b, **a}: the baseline put over the course's map
MergeBaselineWins(a, b) ==
    [k \in DOMAIN a \cup DOMAIN b |-> IF k \in DOMAIN a THEN a[k] ELSE b[k]]

\* {**a, **b}
Merge(a, b) == [k \in DOMAIN a \cup DOMAIN b |-> IF k \in DOMAIN b THEN b[k] ELSE a[k]]

\* facts_db._load_facts
_load_facts(d, course) ==
    The({ IF ~p.ok THEN p
          ELSE LET json      == d.facts[p.filename]
                   schema    == Get(json, "_schema", EmptyMap)
                   key_map   == Merge(DEFAULT_KEY_MAP, Get(schema, "key_map", EmptyMap))
                   field_map == Get(schema, "field_map", EmptyMap)
                   keep      == {k \in DOMAIN json : ~StartsWith(k, "_")}
               IN  [ok |-> TRUE, filename |-> p.filename,
                    facts |-> [k \in keep |-> json[k]],
                    meta |-> [key_map |-> key_map, field_map |-> field_map]]
          : p \in {_get_facts_path(d, course)} })

\* the values of a dict
Values(fm) == {fm[k] : k \in DOMAIN fm}

\* a remap that forgets the test `k not in fm.values()` of line 77
RemapKeepSource(r, fm) ==
    LET mapped == {k \in DOMAIN fm : fm[k] \in DOMAIN r}
    IN  [k \in mapped \cup DOMAIN r |-> IF k \in mapped THEN r[fm[k]] ELSE r[k]]

\* facts_db._get_entries, lines 67-79: one record through the field map
Remap(r, fm) ==
    LET mapped == {k \in DOMAIN fm : fm[k] \in DOMAIN r}
        rest   == {k \in DOMAIN r : k \notin Values(fm) /\ k \notin mapped}
    IN  [k \in mapped \cup rest |-> IF k \in mapped THEN r[fm[k]] ELSE r[k]]

\* facts_db._get_entries
_get_entries(facts, intent, meta) ==
    LET data_key    == Get(meta.key_map, intent, intent)
        raw_entries == Get(facts, data_key, List(<<>>))
        fm          == Get(meta.field_map, intent, EmptyMap)
    IN  IF ~raw_entries.list THEN <<>>
        ELSE IF DOMAIN fm = {} THEN raw_entries.items
        ELSE LET keep == [i \in 1..Len(raw_entries.items) |-> raw_entries.items[i].dict]
                 dicts == SelectSeqIdx(raw_entries.items, keep)
             IN  [i \in 1..Len(dicts) |-> Dict(Remap(dicts[i].f, fm))]

----------------------------------------------------------------------------
(* facts_db: the structured resolvers.  A call returns Ret(answer,         *)
(* citations) or raises: Raise(exception, message).                        *)

Ret(answer, citations) == [ok |-> TRUE, answer |-> answer, citations |-> citations]
Raise(exc, msg) == [ok |-> FALSE, exc |-> exc, msg |-> msg]

\* models.Citation
Citation(text, quote, source) == [text |-> text, quote |-> quote, source |-> source]

\* the aliases dict of _normalize_assessment, as its items
Aliases ==
    << <<"hw1", "hw1">>, <<"homework1", "hw1">>, <<"homework 1", "hw1">>,
       <<"hw2", "hw2">>, <<"homework2", "hw2">>,
       <<"hw3", "hw3">>, <<"hw4", "hw4">>, <<"hw5", "hw5">>, <<"hw6", "hw6">>,
       <<"hw7", "hw7">>, <<"hw8", "hw8">>, <<"hw9", "hw9">>,
       <<"midterm1", "midterm_1">>, <<"midterm 1", "midterm_1">>,
       <<"midterm_2", "midterm_2">>, <<"midterm 2", "midterm_2">>,
       <<"syllabus_quiz", "syllabus_quiz">>, <<"quiz", "syllabus_quiz">>,
       <<"final", "final_exam">>, <<"final_exam", "final_exam">> >>

\* a normalization whose last line is aliases.get(s), without the default
_normalize_assessment_no_default(s) ==
    IF ~Truthy(s) THEN None
    ELSE The({ IF \E i \in 1..Len(Aliases) : Aliases[i][1] = t
               THEN Aliases[CHOOSE i \in 1..Len(Aliases) : Aliases[i][1] = t][2]
               ELSE None
               : t \in {Replace(Replace(Strip(Lower(s)), " ", "_"), "-", "_")} })

\* facts_db._normalize_assessment
_normalize_assessment(s) ==
    IF ~Truthy(s) THEN None
    ELSE The({ IF \E i \in 1..Len(Aliases) : Aliases[i][1] = t
               THEN Aliases[CHOOSE i \in 1..Len(Aliases) : Aliases[i][1] = t][2]
               ELSE t
               : t \in {Replace(Replace(Strip(Lower(s)), " ", "_"), "-", "_")} })

\* e.get(k1, e.get(k2, d))
Get2(e, k1, k2, d) == Get(e, k1, Get(e, k2, d))

\* Calling .get on an item that is no dict
NoGet == Raise("AttributeError", "object has no attribute 'get'")

\* the last position at which the sequence of booleans is true, 0 when none
LastIdx(hits) ==
    LET at == {i \in 1..Len(hits) : hits[i]}
    IN  IF at = {} THEN 0 ELSE CHOOSE i \in at : \A j \in at : i >= j

\* the first position at which the sequence of booleans is true, 0 when none
FirstIdx(hits) ==
    LET at == {i \in 1..Len(hits) : hits[i]}
    IN  IF at = {} THEN 0 ELSE CHOOSE i \in at : \A j \in at : i <= j

AllDicts(entries) == \A i \in 1..Len(entries) : entries[i].dict

\* the test of facts_db.py line 131
DueMatches(e, norm) == Replace(Lower(Get2(e, "assessment", "item", "")), "-", "_") = norm

\* lines 132-139: the answer built from the matching record
DueAnswer(e) ==
    LET a    == Get2(e, "assessment", "item", "")
        due  == Get2(e, "due_date", "deadline", "")
        wf   == Get2(e, "where_find", "instructions", "")
        ws   == Get2(e, "where_submit", "submit_to", "")
        text == a \o " is due " \o due \o ". Find it: " \o wf \o ". Submit: " \o ws \o "."
        note == IF Get(e, "note", "") # "" THEN " Note: " \o e["note"] \o "." ELSE ""
    IN  Ret(text \o note, <<Citation(due, Get(e, "quote", due), Get(e, "source", ""))>>)

\* a listing that forgets the citations.append of line 147
DueListingUncited(entries) ==
    LET part(e) == Get2(e, "assessment", "item", "?") \o ": "
                     \o Get2(e, "due_date", "deadline", "?")
                     \o " (" \o Get2(e, "where_submit", "submit_to", "?") \o ")"
    IN  Ret("Deliverable due dates:\n"
                \o Join("\n", [i \in 1..Len(entries) |-> part(entries[i].f)]),
            <<>>)

\* a listing whose citations come in the reverse of the record order
DueListingReversed(entries) ==
    LET part(e) == Get2(e, "assessment", "item", "?") \o ": "
                     \o Get2(e, "due_date", "deadline", "?")
                     \o " (" \o Get2(e, "where_submit", "submit_to", "?") \o ")"
        cit(e)  == LET due == Get2(e, "due_date", "deadline", "?")
                   IN  Citation(due, Get(e, "quote", due), Get(e, "source", ""))
    IN  Ret("Deliverable due dates:\n"
                \o Join("\n", [i \in 1..Len(entries) |-> part(entries[i].f)]),
            [i \in 1..Len(entries) |-> cit(entries[Len(entries) + 1 - i].f)])

\* lines 141-148: the listing of every record
DueListing(entries) ==
    LET part(e) == Get2(e, "assessment", "item", "?") \o ": "
                     \o Get2(e, "due_date", "deadline", "?")
                     \o " (" \o Get2(e, "where_submit", "submit_to", "?") \o ")"
        cit(e)  == LET due == Get2(e, "due_date", "deadline", "?")
                   IN  Citation(due, Get(e, "quote", due), Get(e, "source", ""))
    IN  Ret("Deliverable due dates:\n"
                \o Join("\n", [i \in 1..Len(entries) |-> part(entries[i].f)]),
            [i \in 1..Len(entries) |-> cit(entries[i].f)])

\* a lookup_due_date without the message of lines 124-125
DueDateOfNoMessage(entries, assessment) ==
    IF entries = <<>> THEN Ret("", <<>>) ELSE DueListing(entries)

\* lookup_due_date from line 124 on, entries the records of the category
DueDateOf(entries, assessment) ==
    IF entries = <<>> THEN Ret("No due dates in database for this course yet.", <<>>)
    ELSE The({ IF hit > 0
               THEN (IF entries[hit].dict THEN DueAnswer(entries[hit].f) ELSE NoGet)
               ELSE IF AllDicts(entries) THEN DueListing(entries) ELSE NoGet
               : hit \in {IF Truthy(assessment)
                          THEN The({ FirstIdx([i \in 1..Len(entries) |->
                                         ~entries[i].dict \/ DueMatches(entries[i].f, norm)])
                                     : norm \in {_normalize_assessment(assessment)} })
                          ELSE 0} })

\* facts_db.lookup_due_date
lookup_due_date(d, assessment, course) ==
    The({ IF ~l.ok THEN l
          ELSE DueDateOf(_get_entries(l.facts, "due_date", l.meta), assessment)
          : l \in {_load_facts(d, course)} })

\* str(e.get('section')) inside an f-string
SectionStr(e) == Get(e, "section", "None")

\* lines 169-175; the three non-ASCII characters between the name and the
\* time are written "---"
InstructorAnswer(e) ==
    LET inst    == Get2(e, "instructor", "name", "")
        when    == Get2(e, "when", "time", "")
        where   == Get2(e, "where", "location", "")
        contact == Get2(e, "contact", "email", "")
    IN  Ret("Section " \o SectionStr(e) \o ": " \o inst \o " --- " \o when \o " at "
                \o where \o ". Contact: " \o contact \o ".",
            <<Citation(inst, Get(e, "quote", inst), Get(e, "source", ""))>>)

\* a resolver that answers nothing when no record matches the section
InstructorListingEmpty(entries) == Ret("", <<>>)

\* lines 177-184
InstructorListing(entries) ==
    LET part(e) == "Section " \o SectionStr(e) \o ": " \o Get2(e, "instructor", "name", "")
                     \o " (" \o Get2(e, "when", "time", "") \o ", "
                     \o Get2(e, "where", "location", "") \o ")"
        cit(e)  == LET inst == Get2(e, "instructor", "name", "")
                   IN  Citation(inst, Get(e, "quote", inst), Get(e, "source", ""))
    IN  Ret("Instructors:\n" \o Join("\n", [i \in 1..Len(entries) |-> part(entries[i].f)]),
            [i \in 1..Len(entries) |-> cit(entries[i].f)])

\* lookup_instructor from line 163 on, entries the records of the category
InstructorOf(entries, section) ==
    IF entries = <<>> THEN Ret("No instructor info in database for this course yet.", <<>>)
    ELSE The({ IF hit > 0
               THEN (IF entries[hit].dict THEN InstructorAnswer(entries[hit].f) ELSE NoGet)
               ELSE IF AllDicts(entries) THEN InstructorListing(entries) ELSE NoGet
               : hit \in {IF Truthy(section)
                          THEN FirstIdx([i \in 1..Len(entries) |->
                                   \/ ~entries[i].dict
                                   \/ Get(entries[i].f, "section", "") = section])
                          ELSE 0} })

\* facts_db.lookup_instructor
lookup_instructor(d, section, course) ==
    The({ IF ~l.ok THEN l
          ELSE InstructorOf(_get_entries(l.facts, "instructor_info", l.meta), section)
          : l \in {_load_facts(d, course)} })

\* lookup_coordinator from line 198 on, entries the records of the category
CoordinatorOf(entries) ==
    IF entries = <<>> THEN Ret("No coordinator info in database for this course yet.", <<>>)
    ELSE IF ~entries[1].dict THEN NoGet
    ELSE LET e    == entries[1].f
             name == Get(e, "name", "")
         IN  Ret("Course coordinator: " \o name \o " (" \o Get(e, "email", "")
                     \o "). Contact for: " \o Get(e, "purpose", "") \o ".",
                 <<Citation(name, Get(e, "quote", name), Get(e, "source", ""))>>)

\* facts_db.lookup_coordinator
lookup_coordinator(d, course) ==
    The({ IF ~l.ok THEN l
          ELSE CoordinatorOf(_get_entries(l.facts, "coordinator", l.meta))
          : l \in {_load_facts(d, course)} })

\* lookup_ta_list from line 214 on, entries the records of the category
TaListOf(entries) ==
    IF entries = <<>> THEN Ret("No TA list in database for this course yet.", <<>>)
    ELSE IF ~AllDicts(entries) THEN NoGet
    ELSE LET names  == [i \in 1..Len(entries) |-> Get2(entries[i].f, "name", "ta", "")]
             quote  == Join(", ", names)
             source == Get(entries[1].f, "source", "course_rules.md")
         IN  Ret("TAs: " \o Join(", ", names), <<Citation("TA list", quote, source)>>)

\* facts_db.lookup_ta_list
lookup_ta_list(d, course) ==
    The({ IF ~l.ok THEN l
          ELSE TaListOf(_get_entries(l.facts, "ta_list", l.meta))
          : l \in {_load_facts(d, course)} })

\* the test of line 248
LinkMatches(e, lt) ==
    \/ Contains(Lower(Get2(e, "name", "title", "")), lt)
    \/ Contains(Lower(Get2(e, "url", "href", "")), lt)

\* lines 253-259
LinksListing(entries) ==
    LET part(e) == Get2(e, "name", "title", "") \o ": " \o Get2(e, "url", "href", "")
        cit(e)  == LET name == Get2(e, "name", "title", "")
                   IN  Citation(name, Get(e, "quote", name), Get(e, "source", ""))
    IN  Ret("Important links:\n" \o Join("\n", [i \in 1..Len(entries) |-> part(entries[i].f)]),
            [i \in 1..Len(entries) |-> cit(entries[i].f)])

\* lines 249-251: the answer built from the matching record
LinkAnswer(e) ==
    LET name == Get2(e, "name", "title", "")
    IN  Ret(name \o ": " \o Get2(e, "url", "href", ""),
            <<Citation(name, Get(e, "quote", name), Get(e, "source", ""))>>)

\* a lookup_links that lists every link, whatever the link_type
LinksOfListing(entries, link_type) ==
    IF entries = <<>> THEN Ret("No links in database for this course yet.", <<>>)
    ELSE LinksListing(entries)

\* lookup_links from line 234 on, entries the records of the category
LinksOf(entries, link_type) ==
    IF entries = <<>> THEN Ret("No links in database for this course yet.", <<>>)
    ELSE The({ IF hit > 0
               THEN (IF entries[hit].dict THEN LinkAnswer(entries[hit].f) ELSE NoGet)
               ELSE IF AllDicts(entries) THEN LinksListing(entries) ELSE NoGet
               : hit \in {IF Truthy(link_type)
                          THEN FirstIdx([i \in 1..Len(entries) |->
                                   \/ ~entries[i].dict
                                   \/ LinkMatches(entries[i].f, Lower(link_type))])
                          ELSE 0} })

\* facts_db.lookup_links
lookup_links(d, link_type, course) ==
    The({ IF ~l.ok THEN l
          ELSE LinksOf(_get_entries(l.facts, "links", l.meta), link_type)
          : l \in {_load_facts(d, course)} })

----------------------------------------------------------------------------
(* md_search: the markdown fallback.  A document is the sequence of its    *)
(* lines, content.split('\n'); an ordered dict is the sequence of its      *)
(* <<key, value>> items.  A search returns <<answer, citations,            *)
(* confidence>> as Md(answer, citations, confidence).                      *)

Md(answer, citations, confidence) ==
    [answer |-> answer, citations |-> citations, confidence |-> confidence]

NoResult == Md("", <<>>, 0)

\* d[k] = v on an ordered dict
DictSet(items, k, v) ==
    IF \E i \in 1..Len(items) : items[i][1] = k
    THEN [i \in 1..Len(items) |-> IF items[i][1] = k THEN <<k, v>> ELSE items[i]]
    ELSE Append(items, <<k, v>>)

\* d.get(k, dflt) on an ordered dict
DictGet(items, k, dflt) ==
    IF \E i \in 1..Len(items) : items[i][1] = k
    THEN items[CHOOSE i \in 1..Len(items) : items[i][1] = k][2]
    ELSE dflt

DictKeys(items) == [i \in 1..Len(items) |-> items[i][1]]
DictValues(items) == [i \in 1..Len(items) |-> items[i][2]]

\* md_search._course_to_md_path: the file name of the rules markdown, or None
_course_to_md_path(d, course) ==
    IF ~Truthy(course) THEN None
    ELSE The({ LET own      == MapGet(m, course)
                   filename == IF Truthy(own) THEN own
                               ELSE IF Truthy(default) THEN MapGet(m, default) ELSE None
               IN  IF ~Truthy(filename) THEN None
                   ELSE The({ IF base \o "_rules.md" \in DOMAIN d.rules
                              THEN base \o "_rules.md" ELSE None
                              : base \in {Replace(Replace(filename, "_facts.json", ""),
                                                  ".json", "")} })
               : m \in {get_course_facts_map(d)}, default \in {get_default_course(d)} })

\* the first position >= i of character c in s, 0 when there is none
FindFrom(s, c, i) ==
    LET at == {j \in i..Len(s) : Ch(s, j) = c}
    IN  IF at = {} THEN 0 ELSE CHOOSE j \in at : \A k \in at : j <= k

\* A match of the regex \[([^\]]+)\]\(([^)]+)\) that starts at position i:
\* [start, end, text, url], or end = 0 when there is none.
LinkAt(s, i) ==
    LET j == FindFrom(s, "]", i + 1)
        k == IF j > 0 THEN FindFrom(s, ")", j + 2) ELSE 0
    IN  IF Ch(s, i) = "[" /\ j >= i + 2 /\ j < Len(s) /\ Ch(s, j + 1) = "(" /\ k >= j + 3
        THEN [start |-> i, end |-> k, text |-> SubSeq(s, i + 1, j - 1),
              url |-> SubSeq(s, j + 2, k - 1)]
        ELSE [start |-> i, end |-> 0, text |-> "", url |-> ""]

\* md_search._strip_md_links, before its final strip()
RECURSIVE SubLinks(_, _)
SubLinks(s, i) ==
    LET j == FindFrom(s, "[", i)
        m == LinkAt(s, j)
    IN  IF j = 0 THEN From(s, i)
        ELSE IF m.end > 0 THEN SubSeq(s, i, j - 1) \o m.text \o SubLinks(s, m.end + 1)
        ELSE SubSeq(s, i, j) \o SubLinks(s, j + 1)

_strip_md_links(text) == Strip(SubLinks(text, 1))

\* [c.strip() for c in line.split('|') if c.strip()]
Cells(line) ==
    The({ SelectSeqIdx(raw, [i \in 1..Len(raw) |-> Strip(raw[i]) # ""])
          : raw \in {The({ [i \in 1..Len(cut) |-> Strip(cut[i])]
                           : cut \in {Split(line, "|")} })} })

\* lines 54-57: one data line as a row under the headers
RECURSIVE RowOf(_, _, _)
RowOf(headers, cells, acc) ==
    IF headers = <<>> \/ cells = <<>> THEN acc
    ELSE RowOf(Tail(headers), Tail(cells),
               DictSet(acc, headers[1], _strip_md_links(cells[1])))

\* md_search._parse_md_table
_parse_md_table(lines) ==
    IF Len(lines) < 2 THEN <<>>
    ELSE IF ~Contains(lines[2], "---") /\ ~Contains(lines[2], "|") THEN <<>>
    ELSE The({ LET body == SubSeq(lines, 3, Len(lines))
                   keep == [i \in 1..Len(body) |->
                               /\ Strip(body[i]) # ""
                               /\ Contains(body[i], "|")
                               /\ Len(Cells(body[i])) >= Len(headers)]
               IN  The({ [i \in 1..Len(kept) |-> RowOf(headers, Cells(kept[i]), <<>>)]
                         : kept \in {SelectSeqIdx(body, keep)} })
               : headers \in {Cells(lines[1])} })

IsTableLine(line) == StartsWith(Strip(line), "|")

\* the end of the block of table lines that starts at line i
RECURSIVE BlockEnd(_, _)
BlockEnd(lines, j) ==
    IF j <= Len(lines) /\ IsTableLine(lines[j]) THEN BlockEnd(lines, j + 1) ELSE j

\* md_search._extract_tables, from line i on with the section label in force
RECURSIVE TablesFrom(_, _, _)
TablesFrom(lines, i, section) ==
    IF i > Len(lines) THEN <<>>
    ELSE LET line == lines[i]
             sec  == IF StartsWith(line, "## ") THEN Strip(From(line, 4)) ELSE section
         IN  IF IsTableLine(line) /\ i + 1 <= Len(lines)
             THEN The({ The({ (IF parsed # <<>> /\ Len(parsed[1]) >= 2
                               THEN <<[section |-> sec, rows |-> parsed]>> ELSE <<>>)
                              \o TablesFrom(lines, j, sec)
                              : parsed \in {_parse_md_table(SubSeq(lines, i, j - 1))} })
                        : j \in {BlockEnd(lines, i + 1)} })
             ELSE TablesFrom(lines, i + 1, sec)

_extract_tables(content) == TablesFrom(content, 1, "")

\* {k.lower().replace(" ", "_"): v for k, v in row.items()}
RECURSIVE NormRow(_, _)
NormRow(row, acc) ==
    IF row = <<>> THEN acc
    ELSE NormRow(Tail(row), DictSet(acc, Replace(Lower(row[1][1]), " ", "_"), row[1][2]))

\* next((k for k in keys if w1 in k or w2 in k ...), dflt), words the w's
NextKey(keys, words, dflt) ==
    LET i == FirstIdx([n \in 1..Len(keys) |-> \E w \in words : Contains(keys[n], w)])
    IN  IF i > 0 THEN keys[i] ELSE dflt

\* lines 118-130: the row of a table that answers the assessment, 0 when none
DueRowHit(rows, assessment) ==
    FirstIdx([i \in 1..Len(rows) |->
            LET norm_row == NormRow(rows[i], <<>>)
                a_key == NextKey(DictKeys(norm_row), {"assessment", "hw", "quiz"}, None)
                val == Lower(DictGet(norm_row, a_key, ""))
            IN  /\ a_key # None
                /\ \/ Contains(val, Lower(assessment))
                   \/ Replace(val, " ", "_") = Replace(Lower(assessment), " ", "_")])

DueRowAnswer(row, assessment, source) ==
    LET norm_row == NormRow(row, <<>>)
        due_key  == NextKey(DictKeys(norm_row), {"due", "date"}, None)
        due      == DictGet(norm_row, due_key, "?")
    IN  Md(assessment \o " is due " \o due \o ". (from course rules)",
           <<Citation(due, Join(" | ", DictValues(row)), source)>>, 95)

\* lines 135-140: what a row adds to the listing, if it does (ok)
DueRowListed(row, source) ==
    The({ LET a_key == NextKey(DictKeys(norm), {"assessment", "hw"},
                           IF norm # <<>> THEN norm[1][1] ELSE None)
              d_key == NextKey(DictKeys(norm), {"due", "date"},
                           IF Len(norm) > 1 THEN norm[2][1] ELSE None)
          IN  [ok   |-> Truthy(a_key) /\ Truthy(d_key),
               part |-> DictGet(norm, a_key, "") \o ": " \o DictGet(norm, d_key, ""),
               cit  |-> Citation(DictGet(norm, d_key, ""), Join(" | ", DictValues(row)),
                                 source)]
          : norm \in {NormRow(row, <<>>)} })

\* lines 131-142: the listing of one table
DueTableListing(rows, source) ==
    The({ IF listed # <<>>
          THEN Md("Deliverable due dates:\n"
                      \o Join("\n", [n \in 1..Len(listed) |-> listed[n].part]),
                  [n \in 1..Len(listed) |-> listed[n].cit], 90)
          ELSE NoResult
          : listed \in {The({ SelectSeqIdx(each, [i \in 1..Len(each) |-> each[i].ok])
                              : each \in {[i \in 1..Len(rows) |->
                                              DueRowListed(rows[i], source)]} })} })

DueSection(section) ==
    \/ Contains(Lower(section), "due")
    \/ Contains(Lower(section), "deliverable")
    \/ Contains(Lower(section), "assessment")

RECURSIVE DueTables(_, _, _)
DueTables(tables, assessment, source) ==
    IF tables = <<>> THEN NoResult
    ELSE IF ~DueSection(tables[1].section) THEN DueTables(Tail(tables), assessment, source)
    ELSE IF Truthy(assessment)
    THEN The({ IF hit > 0 THEN DueRowAnswer(tables[1].rows[hit], assessment, source)
               ELSE DueTables(Tail(tables), assessment, source)
               : hit \in {DueRowHit(tables[1].rows, assessment)} })
    ELSE The({ IF lst.answer # "" THEN lst
               ELSE DueTables(Tail(tables), assessment, source)
               : lst \in {DueTableListing(tables[1].rows, source)} })

\* md_search.search_md_due_dates
search_md_due_dates(d, course, assessment) ==
    The({ IF path = None THEN NoResult
          ELSE DueTables(_extract_tables(d.rules[path]), assessment, path)
          : path \in {_course_to_md_path(d, course)} })

\* lines 157-168: the first row the section slot lets through, 0 when none
InstructorRowHit(rows, section) ==
    FirstIdx([i \in 1..Len(rows) |->
                 ~(Truthy(section)
                   /\ DictGet(NormRow(rows[i], <<>>), "section", "") # section)])

InstructorRowAnswer(row, source) ==
    LET norm    == NormRow(row, <<>>)
        sec_val == DictGet(norm, "section", "")
        inst    == DictGet(norm, "instructor", DictGet(norm, "name", ""))
        when    == DictGet(norm, "when", DictGet(norm, "time", ""))
        where   == DictGet(norm, "where", DictGet(norm, "location", ""))
        contact == DictGet(norm, "contact", DictGet(norm, "email", ""))
    IN  Md("Section " \o sec_val \o ": " \o inst \o " --- " \o when \o " at " \o where
              \o ". Contact: " \o contact \o ".",
           <<Citation(inst, Join(" | ", DictValues(row)), source)>>, 95)

\* lines 169-171: the listing of one table
InstructorTableListing(sec, rows, source) ==
    LET part(r) == "Section " \o DictGet(r, "Section", DictGet(r, "section", "?")) \o ": "
                       \o DictGet(r, "Instructor", DictGet(r, "instructor", "?"))
    IN  Md("Instructors:\n" \o Join("\n", [i \in 1..Len(rows) |-> part(rows[i])]),
           <<Citation("Instructors table", sec, source)>>, 90)

InstructorSection(sec) ==
    Contains(Lower(sec), "instructor") \/ Contains(Lower(sec), "teaching")

RECURSIVE InstructorTables(_, _, _)
InstructorTables(tables, section, source) ==
    IF tables = <<>> THEN NoResult
    ELSE IF ~InstructorSection(tables[1].section)
    THEN InstructorTables(Tail(tables), section, source)
    ELSE The({ IF hit > 0 THEN InstructorRowAnswer(tables[1].rows[hit], source)
               ELSE IF ~Truthy(section)
               THEN InstructorTableListing(tables[1].section, tables[1].rows, source)
               ELSE InstructorTables(Tail(tables), section, source)
               : hit \in {InstructorRowHit(tables[1].rows, section)} })

\* md_search.search_md_instructors
search_md_instructors(d, course, section) ==
    The({ IF path = None THEN NoResult
          ELSE InstructorTables(_extract_tables(d.rules[path]), section, path)
          : path \in {_course_to_md_path(d, course)} })

IsNameChar(c) == IsAlpha(c) \/ IsSpace(c)

\* A match of ([A-Za-z\s]+)\s*\(([^)]+@[^)]+)\) whose first group starts at i:
\* the run of letters and spaces from i must end at a "(", and the text up
\* to the next ")" must hold an "@" with a character on each side.
NameEmailAt(s, i) ==
    LET ends == {j \in i..Len(s) : ~IsNameChar(Ch(s, j))}
        stop == IF ends = {} THEN 0 ELSE CHOOSE j \in ends : \A k \in ends : j <= k
        close == IF stop > 0 THEN FindFrom(s, ")", stop + 1) ELSE 0
        inner == IF close > 0 THEN SubSeq(s, stop + 1, close - 1) ELSE ""
    IN  IF /\ stop > i
           /\ Ch(s, stop) = "("
           /\ close > 0
           /\ \E p \in 2..(Len(inner) - 1) : Ch(inner, p) = "@"
        THEN [found |-> TRUE, name |-> SubSeq(s, i, stop - 1), email |-> inner]
        ELSE [found |-> FALSE, name |-> "", email |-> ""]

\* re.search of that pattern in a line
NameEmailSearch(line) ==
    The({ IF at = {} THEN [found |-> FALSE, name |-> "", email |-> ""]
          ELSE NameEmailAt(line, CHOOSE i \in at : \A j \in at : i <= j)
          : at \in {{i \in 1..Len(line) : NameEmailAt(line, i).found}} })

\* md_search.search_md_coordinator, the loop from line i on
RECURSIVE CoordinatorFrom(_, _, _, _)
CoordinatorFrom(lines, i, in_section, source) ==
    IF i > Len(lines) THEN NoResult
    ELSE The({ IF Contains(Lower(line), "coordinator") /\ StartsWith(line, "#")
               THEN CoordinatorFrom(lines, i + 1, TRUE, source)
               ELSE IF /\ in_section
                       /\ (Contains(line, "@") \/ Contains(Lower(line), "email"))
                       /\ m.found
               THEN Md("Course coordinator: " \o Strip(m.name) \o " (" \o m.email \o ").",
                       <<Citation(Strip(m.name), Strip(line), source)>>, 90)
               ELSE IF in_section /\ StartsWith(line, "## ") THEN NoResult
               ELSE CoordinatorFrom(lines, i + 1, in_section, source)
               : line \in {lines[i]}, m \in {NameEmailSearch(lines[i])} })

search_md_coordinator(d, course) ==
    The({ IF path = None THEN NoResult ELSE CoordinatorFrom(d.rules[path], 1, FALSE, path)
          : path \in {_course_to_md_path(d, course)} })

IsBullet(line) == StartsWith(Strip(line), "- ") \/ StartsWith(Strip(line), "* ")

\* md_search._extract_list_items, the loop from line i on
RECURSIVE ListItemsFrom(_, _, _, _)
ListItemsFrom(lines, i, in_section, section_hint) ==
    IF i > Len(lines) THEN <<>>
    ELSE The({ The({ IF in /\ StartsWith(lines[i], "## ") /\ ~Contains(lines[i], section_hint)
                     THEN item
                     ELSE item \o ListItemsFrom(lines, i + 1, in, section_hint)
                     : item \in {IF in /\ IsBullet(lines[i])
                                 THEN <<Strip(_strip_md_links(From(Strip(lines[i]), 3)))>>
                                 ELSE <<>>} })
               : in \in {\/ in_section
                         \/ /\ section_hint # ""
                            /\ Contains(Lower(lines[i]), Lower(section_hint))} })

_extract_list_items(content, section_hint) == ListItemsFrom(content, 1, FALSE, section_hint)

\* the trust threshold of search_md_tas, line 208
MinTaItems == 3

\* a search_md_tas that trusts any non-empty list of items
TasAnswerAnyItems(items, source) ==
    LET names == [i \in 1..Len(items) |-> Strip(Split(items[i], "(")[1])]
    IN  IF names # <<>>
        THEN Md("TAs: " \o Join(", ", names),
                <<Citation("TA list", Join(", ", names), source)>>, 90)
        ELSE NoResult

\* lines 208-217 of search_md_tas, items the bullets of the TAs section
TasAnswer(items, source) ==
    The({ LET quote == Join(", ", SubSeq(names, 1, Min(5, Len(names))))
                         \o (IF Len(names) > 5 THEN "..." ELSE "")
          IN  IF Len(items) >= MinTaItems /\ names # <<>>
              THEN Md("TAs: " \o Join(", ", names), <<Citation("TA list", quote, source)>>, 90)
              ELSE NoResult
          : names \in {The({ [i \in 1..Len(kept) |-> Strip(Split(kept[i], "(")[1])]
                             : kept \in {SelectSeqIdx(items, [i \in 1..Len(items) |->
                                             /\ items[i] # ""
                                             /\ ~StartsWith(items[i], "http")])} })} })

\* md_search.search_md_tas
search_md_tas(d, course) ==
    The({ IF path = None THEN NoResult
          ELSE TasAnswer(_extract_list_items(d.rules[path], "TAs"), path)
          : path \in {_course_to_md_path(d, course)} })

\* re.findall of \[([^\]]+)\]\(([^)]+)\) from position i on, each link wanted
\* after a "*" and optional white space when star is TRUE
StarLinkAt(s, i, star) ==
    IF ~star THEN LinkAt(s, i)
    ELSE IF Ch(s, i) # "*" THEN [start |-> i, end |-> 0, text |-> "", url |-> ""]
    ELSE LET ends == {j \in (i + 1)..Len(s) : ~IsSpace(Ch(s, j))}
             b    == IF ends = {} THEN 0 ELSE CHOOSE j \in ends : \A k \in ends : j <= k
         IN  IF b > 0 THEN LinkAt(s, b) ELSE [start |-> i, end |-> 0, text |-> "", url |-> ""]

RECURSIVE FindLinks(_, _, _)
FindLinks(s, i, star) ==
    LET j == FindFrom(s, IF star THEN "*" ELSE "[", i)
        m == StarLinkAt(s, j, star)
    IN  IF j = 0 THEN <<>>
        ELSE IF m.end > 0
        THEN <<[name |-> m.text, url |-> m.url]>> \o FindLinks(s, m.end + 1, star)
        ELSE FindLinks(s, j + 1, star)

\* the cap of the links listing, line 239
MaxListedLinks == 15

\* lines 226-230 of search_md_links: the links of the content
AllLinks(content) ==
    The({ IF starred # <<>> THEN starred ELSE FindLinks(content, 1, FALSE)
          : starred \in {FindLinks(content, 1, TRUE)} })

\* lines 231-240 of search_md_links
LinksAnswer(links, link_type, source) ==
    IF links = <<>> THEN NoResult
    ELSE The({ LET listed == SubSeq(links, 1, Min(MaxListedLinks, Len(links)))
                   parts  == [i \in 1..Len(listed) |->
                                 listed[i].name \o ": " \o listed[i].url]
               IN  IF hit > 0
                   THEN Md(links[hit].name \o ": " \o links[hit].url,
                           <<Citation(links[hit].name,
                                      "[" \o links[hit].name \o "](" \o links[hit].url \o ")",
                                      source)>>, 85)
                   ELSE Md("Important links:\n" \o Join("\n", parts),
                           <<Citation("Links", parts[1], source)>>, 80)
               : hit \in {IF Truthy(link_type)
                          THEN FirstIdx([i \in 1..Len(links) |->
                                   \/ Contains(Lower(links[i].name), Lower(link_type))
                                   \/ Contains(Lower(links[i].url), Lower(link_type))])
                          ELSE 0} })

\* md_search.search_md_links
search_md_links(d, course, link_type) ==
    The({ IF path = None THEN NoResult
          ELSE LinksAnswer(AllLinks(Join("\n", d.rules[path])), link_type, path)
          : path \in {_course_to_md_path(d, course)} })

\* a search_md that answers an intent it has no branch for with a pointer
\* to the document, at confidence 0.0 and without a citation
search_md_pointing(d, intent, slots, course) ==
    IF intent = "due_date" THEN search_md_due_dates(d, course, Get(slots, "assessment", None))
    ELSE IF intent = "instructor_info"
    THEN search_md_instructors(d, course, Get(slots, "section", None))
    ELSE IF intent = "coordinator" THEN search_md_coordinator(d, course)
    ELSE IF intent = "ta_list" THEN search_md_tas(d, course)
    ELSE IF intent = "links" THEN search_md_links(d, course, Get(slots, "link_type", None))
    ELSE Md("See the course rules.", <<>>, 0)

\* md_search.search_md
search_md(d, intent, slots, course) ==
    IF intent = "due_date" THEN search_md_due_dates(d, course, Get(slots, "assessment", None))
    ELSE IF intent = "instructor_info"
    THEN search_md_instructors(d, course, Get(slots, "section", None))
    ELSE IF intent = "coordinator" THEN search_md_coordinator(d, course)
    ELSE IF intent = "ta_list" THEN search_md_tas(d, course)
    ELSE IF intent = "links" THEN search_md_links(d, course, Get(slots, "link_type", None))
    ELSE NoResult

Digits == {"0", "1", "2", "3", "4", "5", "6", "7", "8", "9"}

IsAlnum(c) == IsAlpha(c) \/ c \in Digits
IsLocalChar(c) == IsAlnum(c) \/ c \in {".", "_", "%", "+", "-"}

\* the letters, and the characters of the domain part of _EMAIL_PATTERN
AlphaChars == {LowerChars[i] : i \in 1..26} \cup {UpperChars[i] : i \in 1..26}
DomainChars == AlphaChars \cup Digits \cup {".", "-"}

\* the first position >= i of s whose character is not in chars; Len(s) + 1
\* when none
RunEnd(s, i, chars) ==
    LET ends == {j \in i..Len(s) : Ch(s, j) \notin chars}
    IN  IF ends = {} THEN Len(s) + 1 ELSE CHOOSE j \in ends : \A k \in ends : j <= k

\* A match of _EMAIL_PATTERN, [a-zA-Z0-9._%+-]+@[a-zA-Z0-9.-]+\.[a-zA-Z]{2,},
\* around the "@" at position at: the greedy domain gives back to its last
\* "." that has a character before it and two letters after it.  The position
\* the match ends at, 0 when the domain fails.
EmailEnd(s, at) ==
    LET dend == RunEnd(s, at + 1, DomainChars)
        dots == {q \in (at + 2)..(dend - 3) :
                    Ch(s, q) = "." /\ IsAlpha(Ch(s, q + 1)) /\ IsAlpha(Ch(s, q + 2))}
        q    == CHOOSE q \in dots : \A r \in dots : r <= q
    IN  IF dots # {} THEN RunEnd(s, q + 1, AlphaChars) - 1 ELSE 0

\* _EMAIL_PATTERN.findall(content) from position i on: the scan goes from
\* one "@" to the next; the local part reaches back over the address
\* characters before the "@", no further than i.
RECURSIVE FindEmails(_, _)
FindEmails(s, i) ==
    LET at    == FindFrom(s, "@", i)
        bad   == {j \in i..(at - 1) : ~IsLocalChar(Ch(s, j))}
        start == IF bad = {} THEN i ELSE (CHOOSE j \in bad : \A k \in bad : k <= j) + 1
        end   == EmailEnd(s, at)
    IN  IF at = 0 THEN <<>>
        ELSE IF start < at /\ end > 0
        THEN <<SubSeq(s, start, end)>> \o FindEmails(s, end + 1)
        ELSE FindEmails(s, at + 1)

\* lines 286-298: the address taken among those found in the content
PickEmail(content, all_emails) ==
    LET preferred == FirstIdx([i \in 1..Len(all_emails) |->
                         \/ /\ Contains(Lower(content), "coordinator")
                            /\ Contains(Lower(all_emails[i]), "coordinator")
                         \/ Contains(Lower(all_emails[i]), "admin")
                         \/ Contains(Lower(all_emails[i]), "info-")
                         \/ Contains(Lower(all_emails[i]), "course")])
    IN  IF all_emails = <<>> THEN None
        ELSE IF preferred > 0 THEN all_emails[preferred]
        ELSE all_emails[1]

\* md_search.extract_contact_email.  (Every address the mailto: pattern
\* finds is found by _EMAIL_PATTERN too, ":" being no address character, and
\* the de-duplication keeps first occurrences: neither changes the result.)
extract_contact_email(d, course) ==
    The({ IF path = None THEN None
          ELSE The({ PickEmail(content, FindEmails(content, 1))
                     : content \in {Join("\n", d.rules[path])} })
          : path \in {_course_to_md_path(d, course)} })

CouldntFind == "I couldn't find that in the course materials. "

\* md_search.get_fallback_message
get_fallback_message(d, course) ==
    The({ IF Truthy(email)
          THEN CouldntFind \o "Please post on Ed Discussion or Piazza, or email at "
                   \o email \o "."
          ELSE CouldntFind \o "Please post on Ed Discussion or Piazza with your question."
          : email \in {extract_contact_email(d, course)} })

----------------------------------------------------------------------------
(* facts_db.lookup_facts, the Lookup Orchestrator *)

\* lookup_facts._lookup, lines 281-298
_lookup(d, intent, slots, course) ==
    IF intent = "due_date" THEN lookup_due_date(d, Get(slots, "assessment", None), course)
    ELSE IF intent = "instructor_info"
    THEN lookup_instructor(d, Get(slots, "section", None), course)
    ELSE IF intent = "coordinator" THEN lookup_coordinator(d, course)
    ELSE IF intent = "ta_list" THEN lookup_ta_list(d, course)
    ELSE IF intent = "links" THEN lookup_links(d, Get(slots, "link_type", None), course)
    ELSE IF intent \in {"lecture_schedule", "reference_material"}
    THEN Ret("See the full lecture schedule and reference material in course_rules.md.",
             <<Citation("course_rules.md", "Lecture schedule (tentative)", "course_rules.md")>>)
    ELSE Ret("", <<>>)

\* the intents whose resolver loads the facts again
ResolverIntents == {"due_date", "instructor_info", "coordinator", "ta_list", "links"}

\* line 321: the structured answer is empty or reads as a placeholder
LooksUnavailable(answer) ==
    \/ answer = ""
    \/ Contains(Lower(answer), "not yet")
    \/ Contains(Prefix(Lower(answer), 10), "no ")

\* lines 321-323: the intents search_md is tried for
FallbackIntents == {"due_date", "instructor_info", "coordinator", "ta_list", "links"}

\* line 326: the confidence at which a markdown answer is taken, in hundredths
MinConfidence == 80

\* a gate that takes any markdown answer, whatever its confidence
AcceptsAnyAnswer(md) == md.answer # ""

\* line 326
AcceptsFallback(md) == md.answer # "" /\ md.confidence >= MinConfidence

\* lines 324-329: what is returned for the structured result s once search_md
\* has given md
Fallback(s, md) == IF AcceptsFallback(md) THEN Ret(md.answer, md.citations) ELSE s

NotRun == [ok |-> FALSE, exc |-> None, msg |-> ""]

Did(ret, file, loads, structured, searched, md) ==
    [ret |-> ret, file |-> file, loads |-> loads, structured |-> structured,
     searched |-> searched, md |-> md]

\* lookup_facts from line 275 on: the load of the facts, the resolver of the
\* intent, the markdown fallback.  What it returns or raises (ret), with what
\* it did on the way: the facts file it read, the loads of it, the structured
\* answer, whether search_md was called and what it gave.
Resolve(d, intent, slots, course) ==
    LET loads == IF intent \in ResolverIntents THEN 2 ELSE 1 IN
    The({ IF ~l.ok THEN Did(Raise(l.exc, l.msg), None, 1, NotRun, FALSE, NoResult)
          ELSE The({ IF ~s.ok THEN Did(s, l.filename, loads, s, FALSE, NoResult)
                     ELSE IF LooksUnavailable(s.answer) /\ intent \in FallbackIntents
                     THEN The({ Did(Fallback(s, md), l.filename, loads, s, TRUE, md)
                                : md \in {search_md(d, intent, slots, course)} })
                     ELSE Did(s, l.filename, loads, s, FALSE, NoResult)
                     : s \in {_lookup(d, intent, slots, course)} })
          : l \in {_load_facts(d, course)} })

\* a lookup_facts without the early return of lines 272-273
lookup_facts_unguarded(d, intent, slots, course) == Resolve(d, intent, slots, course)

\* facts_db.lookup_facts
lookup_facts(d, intent, slots, course) ==
    IF intent = "out_of_scope" THEN Did(Ret("", <<>>), None, 0, NotRun, FALSE, NoResult)
    ELSE Resolve(d, intent, slots, course)

----------------------------------------------------------------------------
(* main._process_query, the query pipeline *)

\* models.QueryResponse
QueryResponse(answer, citations, intent, slots_used, refused, refusal_reason) ==
    [answer |-> answer, citations |-> citations, intent |-> intent,
     slots_used |-> slots_used, refused |-> refused, refusal_reason |-> refusal_reason]

\* ollama_router.INTENT_OPTIONS
INTENT_OPTIONS ==
    {"greeting", "thanks", "bye", "help", "due_date", "instructor_info", "ta_list",
     "coordinator", "links", "lecture_schedule", "reference_material", "out_of_scope"}

\* main._CHITCHAT_RESPONSES
_CHITCHAT_RESPONSES ==
    [greeting |-> <<"Hey! I'm PolicyLens. Ask me about course policies.",
                    "Hi there! How can I help you today?",
                    "Hello! What would you like to know?",
                    "I'm doing well, thanks for asking!">>,
     thanks   |-> <<"You're welcome! Let me know if you need anything else.",
                    "Happy to help! Ask anytime.",
                    "Anytime! Feel free to ask more questions.">>,
     bye      |-> <<"Bye! Come back if you have more questions.">>,
     help     |-> <<"I can answer questions about course policies. Just ask!">>]

\* line 163: the confidence below which a classification is not acted on,
\* in hundredths
LowConfidence == 50

NoLookup == Did(NotRun, None, 0, NotRun, FALSE, NoResult)

\* what a call did: the lookup_facts calls it made, what the last one did,
\* and the get_fallback_message calls it made
Trace(lookups, did, fallback_msgs) ==
    [lookups |-> lookups, file |-> did.file, loads |-> did.loads,
     structured |-> did.structured, searched |-> did.searched, md |-> did.md,
     fallback_msgs |-> fallback_msgs]

Done(resp, tr) == [out |-> [ok |-> TRUE, resp |-> resp], tr |-> tr]

\* a line 163 that also turns away a confidence of exactly 0.5
IsLowConfidenceInclusive(c) == c.confidence <= LowConfidence

\* line 163
IsLowConfidence(c) == c.confidence < LowConfidence

\* a handler of FileNotFoundError that answers with the message
MissingCourseDataAnswered(c, msg) ==
    QueryResponse("Course data not yet available. " \o msg, <<>>, c.intent, c.slots,
                  FALSE, None)

\* lines 196-205: the response to the FileNotFoundError of lookup_facts
MissingCourseData(c, msg) ==
    QueryResponse("", <<>>, c.intent, c.slots, TRUE,
                  "Course data not yet available. " \o msg)

\* main._process_query from line 141 on, for the outcome c of classify_intent
\* and the reply picked by random.choice (pick) should the intent be chitchat
_process_query(d, c, course, pick) ==
    IF c.kind = "error"
    THEN Done(QueryResponse("", <<>>, "out_of_scope", EmptyMap, TRUE,
                            "Router error: " \o c.msg), Trace(0, NoLookup, 0))
    ELSE IF c.kind = "none"
    THEN Done(QueryResponse("", <<>>, "out_of_scope", EmptyMap, TRUE,
                            "JSON parse failed. Refusing to guess."), Trace(0, NoLookup, 0))
    ELSE IF IsLowConfidence(c)
    THEN Done(QueryResponse(get_fallback_message(d, course), <<>>, c.intent, c.slots,
                            FALSE, None), Trace(0, NoLookup, 1))
    ELSE IF c.intent = "out_of_scope"
    THEN Done(QueryResponse(get_fallback_message(d, course), <<>>, "out_of_scope", c.slots,
                            FALSE, None), Trace(0, NoLookup, 1))
    ELSE IF c.intent \in DOMAIN _CHITCHAT_RESPONSES
    THEN Done(QueryResponse(_CHITCHAT_RESPONSES[c.intent][pick], <<>>, c.intent, c.slots,
                            FALSE, None), Trace(0, NoLookup, 0))
    ELSE The({
        IF ~did.ret.ok
        THEN (IF did.ret.exc = "FileNotFoundError"
              THEN Done(MissingCourseData(c, did.ret.msg), Trace(1, did, 0))
              ELSE [out |-> did.ret, tr |-> Trace(1, did, 0)])
        ELSE IF did.ret.answer = "" /\ did.ret.citations = <<>>
        THEN Done(QueryResponse(get_fallback_message(d, course), <<>>, c.intent, c.slots,
                                FALSE, None), Trace(1, did, 1))
        ELSE Done(QueryResponse(did.ret.answer, did.ret.citations, c.intent, c.slots,
                                FALSE, None), Trace(1, did, 0))
        : did \in {lookup_facts(d, c.intent, c.slots, course)} })

----------------------------------------------------------------------------
(* The data directories and the requests the model runs on *)

\* the most records a category of a facts file holds
MaxRecords == 2

DuePool ==
    << [assessment |-> "hw1", due_date |-> "Jan 12", where_find |-> "GitHub",
        where_submit |-> "Gradescope", quote |-> "hw1 Jan 12", source |-> "cpsc_330_rules.md"],
       [assessment |-> "quiz", due_date |-> "Jan 5", note |-> "Not yet open",
        source |-> "syllabus.md"],
       [item |-> "HW1", deadline |-> "Feb 1", submit_to |-> "Canvas", source |-> "old.md"] >>

InstructorPool ==
    << [section |-> "201", instructor |-> "Ann Lee", when |-> "Tue", where |-> "DMP",
        contact |-> "ann@ubc.ca", quote |-> "201 Ann Lee", source |-> "cpsc_330_rules.md"],
       [section |-> "202", name |-> "Bo Roy", time |-> "Wed", location |-> "ICCS",
        email |-> "bo@ubc.ca", source |-> "staff.md"],
       [section |-> "201", instructor |-> "Cy Kim", source |-> "old.md"] >>

CoordinatorPool ==
    << [name |-> "Ann Lee", email |-> "ann@ubc.ca", purpose |-> "admin",
        quote |-> "Ann Lee (ann@ubc.ca)", source |-> "cpsc_330_rules.md"],
       [name |-> "Bo Roy", source |-> "staff.md"],
       [email |-> "cy@ubc.ca"] >>

TaPool ==
    << [name |-> "Juno Park", source |-> "tas.md"],
       [ta |-> "Max Roe"],
       [name |-> "Eve Poe", source |-> "old.md"] >>

LinkPool ==
    << [name |-> "Canvas", url |-> "https://canvas.ubc.ca", quote |-> "Canvas",
        source |-> "x.md"],
       [name |-> "Gradescope", url |-> "https://gradescope.ca", quote |-> "Gradescope",
        source |-> "x.md"],
       [title |-> "Piano lab", href |-> "https://p.ca", source |-> "y.md"] >>

\* records of a general-policy category, read under the intent's own name
PolicyPool ==
    << [title |-> "Late policy", summary |-> "No late submissions without a concession",
        quote |-> "Late policy", source |-> "cpsc_330_rules.md"],
       [title |-> "Regrades", summary |-> "Ask within a week", source |-> "syllabus.md"],
       [title |-> "Collaboration", summary |-> "Late-night pairing is fine"] >>

PoolSize == Len(DuePool)

\* the ways to pick up to MaxRecords records, with repetition, in any order
Picks == UNION {[1..n -> 1..PoolSize] : n \in 0..MaxRecords}

Items(pool, pick) == List([i \in 1..Len(pick) |-> Dict(pool[pick[i]])])

\* a facts file in the default layout
PlainStore(pick) ==
    [due_dates |-> Items(DuePool, pick), instructors |-> Items(InstructorPool, pick),
     coordinator |-> Items(CoordinatorPool, pick), tas |-> Items(TaPool, pick),
     links |-> Items(LinkPool, pick), general_policy |-> Items(PolicyPool, pick)]

\* a facts file with a schema block: due dates under "assignments" with the
\* fields item / deadline, a links value that is no list, a TA list with an
\* item that is no dict
SchemaStore(pick) ==
    [_schema |-> [key_map |-> [due_date |-> "assignments"],
                  field_map |-> [due_date |-> [assessment |-> "item",
                                               due_date |-> "deadline"]]],
     assignments |-> Items(DuePool, pick),
     instructors |-> Items(InstructorPool, pick),
     tas |-> List(<<NotADict>>),
     links |-> NotAList]

RulesA ==
    << "# CPSC 330",
       "## Deliverable due dates",
       "| Assessment | Due Date | Where |",
       "|---|---|---|",
       "| hw1 | Jan 12 | [GS](https://g.ca) |",
       "| Syllabus quiz | Jan 5 | Canvas |",
       "## Teaching team",
       "| Section | Instructor | When |",
       "|---|---|---|",
       "| 201 | Ann Lee | Tue |",
       "## Course coordinator",
       "Ask Ann Lee (c-admin@ubc.ca) first.",
       "## TAs",
       "- Juno Park (lead)",
       "- Max Roe",
       "- Eve Poe",
       "## Links",
       "* [Canvas](https://canvas.ubc.ca)",
       "* [Ed](https://ed.com)" >>

RulesB ==
    << "# MDS",
       "## TAs",
       "- Al",
       "- Bea",
       "See [Canvas](https://canvas.ubc.ca)." >>

Fn1(k, v) == [x \in {k} |-> v]
Fn2(k1, v1, k2, v2) == [x \in {k1, k2} |-> IF x = k1 THEN v1 ELSE v2]

Dir(facts, rules) == [facts |-> facts, rules |-> rules]

\* the data directories: empty; one file with the empty base name; the
\* CPSC 330 file alone, without its rules and with rules that list two TAs;
\* CPSC 330 and MDS with their rules
Dirs ==
    {Dir(EmptyMap, EmptyMap), Dir(Fn1("_facts.json", EmptyMap), EmptyMap)}
    \cup {Dir(Fn1("cpsc_330_facts.json", PlainStore(p)), EmptyMap) : p \in Picks}
    \cup {Dir(Fn1("cpsc_330_facts.json", PlainStore(p)), Fn1("cpsc_330_rules.md", RulesB))
              : p \in Picks}
    \cup {Dir(Fn2("cpsc_330_facts.json", PlainStore(p), "mds_facts.json", SchemaStore(p)),
              Fn2("cpsc_330_rules.md", RulesA, "mds_rules.md", RulesB)) : p \in Picks}

Courses == {None, "CPSC 330", "MDS", "STAT 1"}

Intents == INTENT_OPTIONS \cup {"general_policy"}

\* the slot sets a request carries: at most the slot its intent reads
SlotsOf(intent) ==
    IF intent = "due_date"
    THEN {EmptyMap} \cup {Fn1("assessment", a) : a \in {"hw1", "quiz", "final"}}
    ELSE IF intent = "instructor_info"
    THEN {EmptyMap} \cup {Fn1("section", x) : x \in {"201", "999"}}
    ELSE IF intent = "links"
    THEN {EmptyMap} \cup {Fn1("link_type", x) : x \in {"Canvas", "piano", "zoom", "ca"}}
    ELSE IF intent = "general_policy"
    THEN {EmptyMap} \cup {Fn1("topic", x) : x \in {"late"}}
    ELSE {EmptyMap}

LookupIntents == Intents \ DOMAIN _CHITCHAT_RESPONSES

\* the confidences a classification carries, in hundredths
Confidences == {49, 50}

\* what classify_intent can give: the RuntimeError it raises, None, or a
\* classification with one of INTENT_OPTIONS (lines 101-103) 
ClassifierOutcomes ==
    {[kind |-> "error", msg |-> "Ollama request failed: connection refused"],
     [kind |-> "none"]}
    \cup UNION {{[kind |-> "ok", intent |-> i, slots |-> sl, confidence |-> c] :
                    sl \in SlotsOf(i), c \in Confidences} : i \in INTENT_OPTIONS}

Questions == {"  ", "when is hw1 due?"}

\* the course field of a POST /query body
QueryCourses == {"", " CPSC 330 "}

\* main.query, lines 232-233
CleanCourse(course) == IF Truthy(course) THEN Strip(course) ELSE None

----------------------------------------------------------------------------
Init ==
    /\ data \in Dirs
    /\ pc = "idle"
    /\ call = [op |-> "none"]
    /\ cls = [kind |-> "unset"]
    /\ result = NotRun
    /\ trace = Trace(0, NoLookup, 0)

\* a direct call of facts_db.lookup_facts, as the repository's tests make
LookupFacts ==
    /\ pc = "idle"
    /\ \E intent \in LookupIntents, course \in Courses :
       \E slots \in SlotsOf(intent) :
       \E did \in {lookup_facts(data, intent, slots, course)} :
          /\ call' = [op |-> "lookup_facts", intent |-> intent, slots |-> slots,
                      course |-> course]
          /\ result' = did.ret
          /\ trace' = Trace(1, did, 0)
    /\ pc' = "done"
    /\ cls' = [kind |-> "unset"]
    /\ UNCHANGED data

\* a direct call of md_search.search_md
SearchMd ==
    /\ pc = "idle"
    /\ \E intent \in Intents, course \in Courses :
       \E slots \in SlotsOf(intent) :
          /\ call' = [op |-> "search_md", intent |-> intent, slots |-> slots,
                      course |-> course]
          /\ result' = search_md(data, intent, slots, course)
    /\ pc' = "done"
    /\ cls' = [kind |-> "unset"]
    /\ trace' = Trace(0, NoLookup, 0)
    /\ UNCHANGED data

\* POST /query: main.query and _process_query up to line 139
Query ==
    /\ pc = "idle"
    /\ \E question \in Questions, course \in QueryCourses :
          /\ call' = [op |-> "query", question |-> Strip(question),
                      course |-> CleanCourse(course)]
          /\ IF Strip(question) = ""
             THEN /\ pc' = "done"
                  /\ result' = [ok |-> TRUE,
                                resp |-> QueryResponse("", <<>>, "out_of_scope", EmptyMap,
                                                       TRUE, "Empty question.")]
             ELSE /\ pc' = "classifying"
                  /\ result' = NotRun
    /\ cls' = [kind |-> "unset"]
    /\ trace' = Trace(0, NoLookup, 0)
    /\ UNCHANGED data

\* line 142: classify_intent answers
Classify ==
    /\ pc = "classifying"
    /\ cls' \in ClassifierOutcomes
    /\ pc' = "classified"
    /\ UNCHANGED <<data, call, result, trace>>

\* _process_query, lines 143-223
Answer ==
    /\ pc = "classified"
    /\ \E pick \in 1..(IF cls.kind = "ok" /\ cls.intent \in DOMAIN _CHITCHAT_RESPONSES
                       /\ ~IsLowConfidence(cls)
                       THEN Len(_CHITCHAT_RESPONSES[cls.intent]) ELSE 1) :
       \E r \in {_process_query(data, cls, call.course, pick)} :
          /\ result' = r.out
          /\ trace' = r.tr
    /\ pc' = "done"
    /\ UNCHANGED <<data, call, cls>>

\* the call has returned; nothing of it stays behind
Return ==
    /\ pc = "done"
    /\ pc' = "idle"
    /\ call' = [op |-> "none"]
    /\ cls' = [kind |-> "unset"]
    /\ result' = NotRun
    /\ trace' = Trace(0, NoLookup, 0)
    /\ UNCHANGED data

Next == LookupFacts \/ SearchMd \/ Query \/ Classify \/ Answer \/ Return

Spec == Init /\ [][Next]_vars

----------------------------------------------------------------------------
(* The fallback stage of lookup_facts on its own: lines 324-329 applied to   *)
(* a structured result and a search_md result drawn from small sets          *)

GateAnswers == {"", "No due dates in database for this course yet.", "hw1 is due Jan 12."}

GateCitations == {<<>>, <<Citation("Jan 12", "hw1 Jan 12", "cpsc_330_rules.md")>>}

GateStructured == {Ret(a, c) : a \in GateAnswers, c \in GateCitations}

\* confidences in hundredths, on both sides of the threshold of line 326
GateConfidences == {0, 79, 80, 81, 95}

GateMd ==
    {Md(a, c, k) : a \in {"", "hw1 is due Jan 12. (from course rules)"},
                   c \in GateCitations, k \in GateConfidences}

InitGate ==
    /\ data = Dir(EmptyMap, EmptyMap)
    /\ pc = "idle"
    /\ \E s \in GateStructured, md \in GateMd :
          call = [op |-> "fallback", structured |-> s, md |-> md]
    /\ cls = [kind |-> "unset"]
    /\ result = NotRun
    /\ trace = Trace(0, NoLookup, 0)

\* lines 324-329
ApplyFallback ==
    /\ pc = "idle"
    /\ result' = Fallback(call.structured, call.md)
    /\ pc' = "done"
    /\ UNCHANGED <<data, call, cls, trace>>

NextGate == ApplyFallback

SpecGate == InitGate /\ [][NextGate]_vars

----------------------------------------------------------------------------
(* The Schema Loader and the Field Normalizer on their own: the two lines     *)
(* every resolver starts with (facts_db.py lines 115-116 and their siblings)  *)
(* applied to facts files with and without a schema block                      *)

\* what a category of a facts file can hold: a record with the source's
\* field names, one with both the canonical and the source's due date, and
\* an item that is no record
RawPool ==
    << Dict([item |-> "HW1", deadline |-> "Feb 1", source |-> "old.md"]),
       Dict([assessment |-> "hw2", due_date |-> "Feb 9", deadline |-> "Feb 8"]),
       NotADict >>

\* the values of a category: no list, or up to MaxRecords items
RawValues == {NotAList} \cup {List([i \in 1..Len(p) |-> RawPool[p[i]]]) : p \in Picks}

\* the value v stored under the category c, every record marked with c
Tagged(v, c) ==
    IF ~v.list THEN v
    ELSE List([i \in 1..Len(v.items) |->
                  IF v.items[i].dict
                  THEN Dict([k \in DOMAIN v.items[i].f \cup {"cat"} |->
                                IF k = "cat" THEN c ELSE v.items[i].f[k]])
                  ELSE v.items[i]])

\* the key_map blocks: none, a renamed category, a category under a
\* metadata key
KeyMaps == {EmptyMap, Fn1("due_date", "assignments"), Fn1("due_date", "_private")}

\* the field_map blocks: none, the source's names for two canonical fields,
\* and a map whose source field for one canonical field is the canonical
\* name of another
FieldMaps ==
    {EmptyMap,
     Fn1("due_date", [due_date |-> "deadline", assessment |-> "item"]),
     Fn1("due_date", [assessment |-> "due_date", due_date |-> "deadline"])}

StoreCategories == {"due_dates", "assignments", "_private", "tas", "ta_list", "general_policy"}

\* a facts file: the value v under every category, with the schema block
\* unless both of its maps are empty
StoreFile(km, fm, v) ==
    LET cats == [c \in StoreCategories |-> Tagged(v, c)]
    IN  IF km = EmptyMap /\ fm = EmptyMap THEN cats
        ELSE [k \in StoreCategories \cup {"_schema"} |->
                 IF k = "_schema" THEN [key_map |-> km, field_map |-> fm] ELSE cats[k]]

StoreDirs ==
    {Dir(EmptyMap, EmptyMap)}
    \cup {Dir(Fn1("mds_facts.json", StoreFile(km, fm, v)), EmptyMap)
              : km \in KeyMaps, fm \in FieldMaps, v \in RawValues}

\* intents with a baseline category, without one, and with no category in
\* the file
StoreIntents == {"due_date", "ta_list", "general_policy", "links"}

InitStore ==
    /\ data \in StoreDirs
    /\ pc = "idle"
    /\ call = [op |-> "none"]
    /\ cls = [kind |-> "unset"]
    /\ result = NotRun
    /\ trace = Trace(0, NoLookup, 0)

\* facts, meta = _load_facts(course)
LoadFacts ==
    /\ pc = "idle"
    /\ \E course \in {None, "MDS"} :
          /\ call' = [op |-> "load_facts", course |-> course]
          /\ result' = _load_facts(data, course)
    /\ pc' = "loaded"
    /\ UNCHANGED <<data, cls, trace>>

\* entries = _get_entries(facts, intent, meta)
GetEntries ==
    /\ pc = "loaded"
    /\ result.ok
    /\ \E intent \in StoreIntents :
          /\ call' = [op |-> "get_entries", intent |-> intent, file |-> result.filename,
                      facts |-> result.facts, meta |-> result.meta]
          /\ result' = [ok |-> TRUE,
                        entries |-> _get_entries(result.facts, intent, result.meta)]
    /\ pc' = "done"
    /\ UNCHANGED <<data, cls, trace>>

NextStore == LoadFacts \/ GetEntries

SpecStore == InitStore /\ [][NextStore]_vars

----------------------------------------------------------------------------
(* _normalize_assessment on its own, applied to a name and then to its own  *)
(* result                                                                    *)

\* the names given to it: the aliases and the canonical names, in other
\* letter cases and with spaces or hyphens, names it does not know, the
\* empty string and None
NormInputs ==
    {"hw1", "hw2", "hw3", "hw4", "hw5", "hw6", "hw7", "hw8", "hw9",
     "homework1", "homework2", "homework 1", "HW1", " hw1 ", "HW-3", "Hw 2",
     "midterm1", "midterm 1", "midterm_1", "midterm-1", "Midterm1",
     "midterm2", "midterm 2", "midterm_2", "Midterm-2",
     "quiz", "Quiz", "syllabus_quiz", "syllabus quiz", "Syllabus-Quiz",
     "final", "Final", "final_exam", "final exam", "FINAL-EXAM",
     "project", "lab 1", "", None}

InitNorm ==
    /\ data = Dir(EmptyMap, EmptyMap)
    /\ pc = "idle"
    /\ \E s \in NormInputs : call = [op |-> "normalize", s |-> s]
    /\ cls = [kind |-> "unset"]
    /\ result = NotRun
    /\ trace = Trace(0, NoLookup, 0)

\* norm = _normalize_assessment(assessment)
Normalize ==
    /\ pc = "idle"
    /\ result' = [ok |-> TRUE, norm |-> _normalize_assessment(call.s)]
    /\ pc' = "normalized"
    /\ UNCHANGED <<data, call, cls, trace>>

\* _normalize_assessment applied to the result it gave
NormalizeAgain ==
    /\ pc = "normalized"
    /\ result' = [ok |-> TRUE, norm |-> _normalize_assessment(result.norm),
                  once |-> result.norm]
    /\ pc' = "done"
    /\ UNCHANGED <<data, call, cls, trace>>

NextNorm == Normalize \/ NormalizeAgain

SpecNorm == InitNorm /\ [][NextNorm]_vars

----------------------------------------------------------------------------
(* Concurrent requests on the read path: each request runs lookup_facts,     *)
(* search_md, get_fallback_message or maybe_add_to_json step by step, every  *)
(* step reading the data directory as it is when the step runs.  Here pc,    *)
(* call and result hold one value per request, and trace holds the _enabled  *)
(* attribute of maybe_add_to_json.                                            *)

\* a write-back that appends to the store whatever the _enabled attribute is
maybe_add_to_json_writing(d, enabled, intent, slots, course, answer, citations) ==
    [d EXCEPT !.facts = [f \in DOMAIN d.facts |-> EmptyMap]]

\* md_search.maybe_add_to_json: the data directory after the call
maybe_add_to_json(d, enabled, intent, slots, course, answer, citations) ==
    IF ~enabled THEN d ELSE d

Requests == {"r1", "r2"}

FrameDirs ==
    {Dir(EmptyMap, EmptyMap),
     Dir(Fn1("cpsc_330_facts.json", PlainStore(<<>>)), Fn1("cpsc_330_rules.md", RulesB)),
     Dir(Fn2("cpsc_330_facts.json", PlainStore(<<1>>), "mds_facts.json", SchemaStore(<<1>>)),
         Fn2("cpsc_330_rules.md", RulesA, "mds_rules.md", RulesB))}

FrameCourses == {None, "CPSC 330"}

FrameIntents == {"due_date", "ta_list", "reference_material", "out_of_scope"}

FrameCalls ==
    {[op |-> o, intent |-> i, slots |-> EmptyMap, course |-> c] :
        o \in {"lookup_facts", "search_md"}, i \in FrameIntents, c \in FrameCourses}
    \cup {[op |-> "get_fallback_message", course |-> c] : c \in FrameCourses}
    \cup {[op |-> "maybe_add_to_json", intent |-> "due_date", slots |-> EmptyMap,
           course |-> "CPSC 330", answer |-> "hw1 is due Jan 12. (from course rules)",
           citations |-> <<Citation("Jan 12", "hw1 | Jan 12", "cpsc_330_rules.md")>>]}

InitFrame ==
    /\ data \in FrameDirs
    /\ pc = [r \in Requests |-> "idle"]
    /\ call = [r \in Requests |-> [op |-> "none"]]
    /\ cls = [kind |-> "unset"]
    /\ result = [r \in Requests |-> NotRun]
    /\ trace \in {[enabled |-> e] : e \in BOOLEAN}

\* a request arrives
Called(r) ==
    /\ pc[r] = "idle"
    /\ \E c \in FrameCalls : call' = [call EXCEPT ![r] = c]
    /\ pc' = [pc EXCEPT ![r] = "called"]
    /\ UNCHANGED <<data, cls, result, trace>>

\* lookup_facts lines 272-275: the early return and the load of the facts
FactsLoaded(r) ==
    /\ pc[r] = "called"
    /\ call[r].op = "lookup_facts"
    /\ \E l \in {_load_facts(data, call[r].course)} :
          IF call[r].intent = "out_of_scope"
          THEN /\ result' = [result EXCEPT ![r] = Ret("", <<>>)]
               /\ pc' = [pc EXCEPT ![r] = "done"]
          ELSE IF ~l.ok
          THEN /\ result' = [result EXCEPT ![r] = Raise(l.exc, l.msg)]
               /\ pc' = [pc EXCEPT ![r] = "done"]
          ELSE /\ result' = result
               /\ pc' = [pc EXCEPT ![r] = "loaded"]
    /\ UNCHANGED <<data, call, cls, trace>>

\* lookup_facts lines 318-323: the resolver of the intent
Resolved(r) ==
    /\ pc[r] = "loaded"
    /\ \E s \in {_lookup(data, call[r].intent, call[r].slots, call[r].course)} :
          /\ result' = [result EXCEPT ![r] = s]
          /\ pc' = [pc EXCEPT ![r] =
                       IF s.ok /\ LooksUnavailable(s.answer)
                          /\ call[r].intent \in FallbackIntents
                       THEN "looked" ELSE "done"]
    /\ UNCHANGED <<data, call, cls, trace>>

\* lookup_facts lines 324-329: the markdown fallback
FellBack(r) ==
    /\ pc[r] = "looked"
    /\ \E md \in {search_md(data, call[r].intent, call[r].slots, call[r].course)} :
          result' = [result EXCEPT ![r] = Fallback(result[r], md)]
    /\ pc' = [pc EXCEPT ![r] = "done"]
    /\ UNCHANGED <<data, call, cls, trace>>

\* a direct search_md call
Searched(r) ==
    /\ pc[r] = "called"
    /\ call[r].op = "search_md"
    /\ result' = [result EXCEPT ![r] =
                     search_md(data, call[r].intent, call[r].slots, call[r].course)]
    /\ pc' = [pc EXCEPT ![r] = "done"]
    /\ UNCHANGED <<data, call, cls, trace>>

\* a get_fallback_message call
FallbackMessage(r) ==
    /\ pc[r] = "called"
    /\ call[r].op = "get_fallback_message"
    /\ result' = [result EXCEPT ![r] =
                     [ok |-> TRUE, msg |-> get_fallback_message(data, call[r].course)]]
    /\ pc' = [pc EXCEPT ![r] = "done"]
    /\ UNCHANGED <<data, call, cls, trace>>

\* a maybe_add_to_json call
MaybeAddToJson(r) ==
    /\ pc[r] = "called"
    /\ call[r].op = "maybe_add_to_json"
    /\ data' = maybe_add_to_json(data, trace.enabled, call[r].intent, call[r].slots,
                                 call[r].course, call[r].answer, call[r].citations)
    /\ result' = [result EXCEPT ![r] = [ok |-> TRUE]]
    /\ pc' = [pc EXCEPT ![r] = "done"]
    /\ UNCHANGED <<call, cls, trace>>

\* the call of the request has returned
Returned(r) ==
    /\ pc[r] = "done"
    /\ pc' = [pc EXCEPT ![r] = "idle"]
    /\ call' = [call EXCEPT ![r] = [op |-> "none"]]
    /\ result' = [result EXCEPT ![r] = NotRun]
    /\ UNCHANGED <<data, cls, trace>>

NextFrame ==
    \E r \in Requests :
        \/ Called(r)
        \/ FactsLoaded(r)
        \/ Resolved(r)
        \/ FellBack(r)
        \/ Searched(r)
        \/ FallbackMessage(r)
        \/ MaybeAddToJson(r)
        \/ Returned(r)

SpecFrame == InitFrame /\ [][NextFrame]_vars

----------------------------------------------------------------------------
(* POST /query/stream: main._stream_query_sse.  Here trace holds the events  *)
(* the generator has yielded so far and the chunks _stream_words is to       *)
(* yield; result holds what _process_query returned or raised.               *)

\* the end of the first word of a string that starts with no whitespace:
\* the position of its first whitespace character, Len(t) + 1 when none
WordEnd(t) ==
    CHOOSE i \in 1..(Len(t) + 1) :
        /\ i = Len(t) + 1 \/ IsSpace(Ch(t, i))
        /\ \A j \in 1..(i - 1) : ~IsSpace(Ch(t, j))

\* str.split() without a separator: the words between runs of whitespace
RECURSIVE Words(_)
Words(s) ==
    The({ IF t = "" THEN <<>>
          ELSE The({ <<SubSeq(t, 1, e - 1)>> \o Words(From(t, e)) : e \in {WordEnd(t)} })
          : t \in {LStrip(s)} })

\* main._stream_words: the chunks yielded for a text
_stream_words(text) ==
    The({ [i \in 1..Len(words) |-> words[i] \o (IF i < Len(words) THEN " " ELSE "")]
          : words \in {Words(text)} })

\* lines 254-256: the text that is streamed for a response
TextToStream(resp) ==
    The({ IF Truthy(text) THEN text ELSE "No answer available."
          : text \in {IF resp.refused THEN resp.refusal_reason ELSE resp.answer} })

StreamDirs ==
    {Dir(EmptyMap, EmptyMap),
     Dir(Fn1("cpsc_330_facts.json", PlainStore(<<>>)), Fn1("cpsc_330_rules.md", RulesB)),
     Dir(Fn2("cpsc_330_facts.json", PlainStore(<<1>>), "mds_facts.json", SchemaStore(<<1>>)),
         Fn2("cpsc_330_rules.md", RulesA, "mds_rules.md", RulesB))}

\* the course field of a POST /query/stream body
StreamCourses == {"", " CPSC 330 ", "MDS"}

NoEvents == [events |-> <<>>, chunks |-> <<>>]

InitStream ==
    /\ data \in StreamDirs
    /\ pc = "idle"
    /\ call = [op |-> "none"]
    /\ cls = [kind |-> "unset"]
    /\ result = NotRun
    /\ trace = NoEvents

\* main.query_stream, lines 281-284: the generator is created
QueryStream ==
    /\ pc = "idle"
    /\ \E question \in Questions, course \in StreamCourses :
          call' = [op |-> "query_stream", question |-> Strip(question),
                   course |-> CleanCourse(course)]
    /\ pc' = "processing"
    /\ UNCHANGED <<data, cls, result, trace>>

\* line 252: _process_query runs in the executor and returns or raises
ProcessQuery ==
    /\ pc = "processing"
    /\ \E c \in ClassifierOutcomes :
       \E pick \in 1..(IF c.kind = "ok" /\ c.intent \in DOMAIN _CHITCHAT_RESPONSES
                          /\ ~IsLowConfidence(c)
                       THEN Len(_CHITCHAT_RESPONSES[c.intent]) ELSE 1) :
       \E r \in {IF call.question = ""
                 THEN Done(QueryResponse("", <<>>, "out_of_scope", EmptyMap, TRUE,
                                         "Empty question."), Trace(0, NoLookup, 0))
                 ELSE _process_query(data, c, call.course, pick)} :
          /\ cls' = (IF call.question = "" THEN cls ELSE c)
          /\ result' = r.out
          /\ IF r.out.ok
             THEN /\ pc' = "streaming"
                  /\ trace' = [events |-> <<>>,
                               chunks |-> _stream_words(TextToStream(r.out.resp))]
             ELSE /\ pc' = "failed"
                  /\ trace' = trace
    /\ UNCHANGED <<data, call>>

\* lines 258-261: the next word is yielded as a chunk event
StreamWord ==
    /\ pc = "streaming"
    /\ Len(trace.events) < Len(trace.chunks)
    /\ trace' = [trace EXCEPT !.events =
                    Append(@, [type |-> "chunk",
                               content |-> trace.chunks[Len(trace.events) + 1]])]
    /\ UNCHANGED <<data, pc, call, cls, result>>

\* lines 263-264: the citations event
StreamCitations ==
    /\ pc = "streaming"
    /\ Len(trace.events) = Len(trace.chunks)
    /\ trace' = [trace EXCEPT !.events =
                    Append(@, [type |-> "citations",
                               citations |-> result.resp.citations])]
    /\ pc' = "cited"
    /\ UNCHANGED <<data, call, cls, result>>

\* lines 266-272: the done event
StreamDone ==
    /\ pc = "cited"
    /\ trace' = [trace EXCEPT !.events =
                    Append(@, [type |-> "done", refused |-> result.resp.refused,
                               intent |-> result.resp.intent,
                               slots_used |-> result.resp.slots_used])]
    /\ pc' = "done"
    /\ UNCHANGED <<data, call, cls, result>>

NextStream == QueryStream \/ ProcessQuery \/ StreamWord \/ StreamCitations \/ StreamDone

SpecStream == InitStream /\ [][NextStream]_vars

----------------------------------------------------------------------------
(* date_parser and ics_generator: the calendar export.  A datetime is       *)
(* [year, month, day, hour, minute]; dateutil and                            *)
(* icalendar are libraries outside the repository, modelled on the formats   *)
(* the repository's tests use.                                               *)

IsDigits(s) == s # "" /\ \A i \in 1..Len(s) : Ch(s, i) \in Digits

\* int(s) for a string of at most nine digits
RECURSIVE IntOf(_)
IntOf(s) ==
    IF s = "" THEN 0
    ELSE 10 * IntOf(SubSeq(s, 1, Len(s) - 1))
           + (CHOOSE d \in 0..9 : Ch("0123456789", d + 1) = Ch(s, Len(s)))

\* s without its leading zeros
RECURSIVE NoLeadingZeros(_)
NoLeadingZeros(s) ==
    IF Len(s) > 1 /\ Ch(s, 1) = "0" THEN NoLeadingZeros(From(s, 2)) ELSE s

\* int(s) does not fit the C int that datetime(year, month, day) takes:
\* it is above 2147483647
ExceedsCInt(s) ==
    LET t == NoLeadingZeros(s)
    IN  \/ Len(t) > 10
        \/ /\ Len(t) = 10
           /\ \/ IntOf(SubSeq(t, 1, 5)) > 21474
              \/ IntOf(SubSeq(t, 1, 5)) = 21474 /\ IntOf(SubSeq(t, 6, 10)) > 83647

\* the part of s before the first match of \*\*[^*]*\*\* and the part after
\* it, and the text between its asterisks: [found, before, inner, after]
BoldSplit(s) ==
    LET at == {i \in 1..(Len(s) - 1) :
                  /\ SubSeq(s, i, i + 1) = "**"
                  /\ LET j == FindFrom(s, "*", i + 2)
                     IN  j > 0 /\ j < Len(s) /\ SubSeq(s, j, j + 1) = "**"}
    IN  IF at = {} THEN [found |-> FALSE, before |-> s, inner |-> "", after |-> ""]
        ELSE LET i == CHOOSE i \in at : \A k \in at : i <= k
                 j == FindFrom(s, "*", i + 2)
             IN  [found |-> TRUE, before |-> SubSeq(s, 1, i - 1),
                  inner |-> SubSeq(s, i + 2, j - 1), after |-> From(s, j + 2)]

\* re.sub(r"\*\*[^*]*\*\*", "", s)
RECURSIVE RemoveBold(_)
RemoveBold(s) ==
    The({ IF ~m.found THEN s ELSE m.before \o RemoveBold(m.after) : m \in {BoldSplit(s)} })

\* re.sub(r"\s*\([^)]*\)\s*,?", ", ", s)
RECURSIVE SubParens(_)
SubParens(s) ==
    LET i == Find(s, "(")
        j == IF i > 0 THEN FindFrom(s, ")", i + 1) ELSE 0
    IN  IF j = 0 THEN s
        ELSE LET before == RStrip(SubSeq(s, 1, i - 1))
                 rest   == LStrip(From(s, j + 1))
                 after  == IF StartsWith(rest, ",") THEN From(rest, 2) ELSE rest
             IN  before \o ", " \o SubParens(after)

\* re.sub(r"\s+\*\*[^*]*\*\*$", "", s): a bold group at the end of s, after
\* whitespace
DropBoldSuffix(s) ==
    LET at == {i \in 2..(Len(s) - 3) :
                  /\ IsSpace(Ch(s, i - 1))
                  /\ SubSeq(s, i, i + 1) = "**"
                  /\ FindFrom(s, "*", i + 2) = Len(s) - 1
                  /\ SubSeq(s, Len(s) - 1, Len(s)) = "**"}
    IN  IF at = {} THEN s
        ELSE RStrip(SubSeq(s, 1, (CHOOSE i \in at : \A k \in at : i <= k) - 1))

\* re.sub(r"\s+No late submissions$", "", s, flags=re.I)
DropNoLate(s) ==
    LET n == Len(s) - Len("No late submissions")
    IN  IF n >= 1 /\ Lower(From(s, n + 1)) = "no late submissions" /\ IsSpace(Ch(s, n))
        THEN RStrip(SubSeq(s, 1, n))
        ELSE s

\* date_parser._strip_markdown_and_suffixes
_strip_markdown_and_suffixes(s) ==
    IF Strip(s) = "" THEN ""
    ELSE Strip(DropNoLate(Strip(DropBoldSuffix(Strip(SubParens(Strip(RemoveBold(s))))))))

\* the month names dateutil knows, abbreviated and in full
MonthNames ==
    << {"jan", "january"}, {"feb", "february"}, {"mar", "march"}, {"apr", "april"},
       {"may"}, {"jun", "june"}, {"jul", "july"}, {"aug", "august"},
       {"sep", "sept", "september"}, {"oct", "october"}, {"nov", "november"},
       {"dec", "december"} >>

\* the number of the month a word names, 0 when it names none
MonthOf(word) ==
    IF \E m \in 1..12 : Lower(word) \in MonthNames[m]
    THEN CHOOSE m \in 1..12 : Lower(word) \in MonthNames[m]
    ELSE 0

\* the days of a month of a year
DaysIn(month, year) ==
    IF month = 2
    THEN (IF (year % 4 = 0 /\ year % 100 # 0) \/ year % 400 = 0 THEN 29 ELSE 28)
    ELSE IF month \in {4, 6, 9, 11} THEN 30 ELSE 31

DateTime(year, month, day, hour, minute) ==
    [year |-> year, month |-> month, day |-> day, hour |-> hour, minute |-> minute]

NoDate == [ok |-> TRUE, none |-> TRUE]

\* datetime(year, month, int(day), hour, minute): the datetime, the ValueError
\* of a day the month does not have, or the OverflowError of a day that
\* does not fit a C int
MakeDate(year, month, day, hour, minute) ==
    IF ExceedsCInt(day) THEN Raise("OverflowError", "signed integer is greater than maximum")
    ELSE IF IntOf(NoLeadingZeros(day)) \in 1..DaysIn(month, year)
    THEN [ok |-> TRUE, none |-> FALSE,
          dt |-> DateTime(year, month, IntOf(NoLeadingZeros(day)), hour, minute)]
    ELSE Raise("ValueError", "day is out of range for month")

\* dateutil.parser.parse(s, default=datetime(year, 1, 1)) on the formats
\* "<month> <day>" and "<month> <day>, <hour>:<minute> am|pm"; every other
\* string is the ParserError (a ValueError) of an unknown format
dateutil_parse(s, year) ==
    LET parts == Split(s, ",")
        date  == Words(parts[1])
        clock == IF Len(parts) = 2 THEN Words(parts[2]) ELSE <<>>
        hm    == IF Len(clock) = 2 THEN Split(clock[1], ":") ELSE <<>>
        timed == /\ Len(parts) = 2
                 /\ Len(clock) = 2
                 /\ Lower(clock[2]) \in {"am", "pm"}
                 /\ Len(hm) = 2
                 /\ IsDigits(hm[1]) /\ Len(hm[1]) <= 2 /\ IntOf(hm[1]) \in 1..12
                 /\ IsDigits(hm[2]) /\ Len(hm[2]) = 2 /\ IntOf(hm[2]) \in 0..59
        dated == /\ Len(date) = 2
                 /\ MonthOf(date[1]) > 0
                 /\ IsDigits(date[2]) /\ Len(date[2]) <= 2
    IN  IF dated /\ (Len(parts) = 1 \/ timed)
        THEN MakeDate(year, MonthOf(date[1]), date[2],
                      IF timed
                      THEN (IntOf(hm[1]) % 12) + (IF Lower(clock[2]) = "pm" THEN 12 ELSE 0)
                      ELSE 0,
                      IF timed THEN IntOf(hm[2]) ELSE 0)
        ELSE Raise("ValueError", "Unknown string format")

\* the groups of a match of ^([A-Za-z]+)\s+(\d+)<sep>(\d+)...$ with n numbers,
\* sep being "-" or, with whitespace allowed around it, ","; <<>> when the
\* string does not match
SpanGroups(s, sep, n) ==
    LET a     == RunEnd(s, 1, AlphaChars)
        rest  == LStrip(From(s, a))
        parts == Split(rest, sep)
        nums  == [i \in 1..Len(parts) |-> IF sep = "," THEN Strip(parts[i]) ELSE parts[i]]
    IN  IF /\ a > 1
           /\ rest # From(s, a)
           /\ Len(parts) = n
           /\ \A i \in 1..n : IsDigits(nums[i])
        THEN <<SubSeq(s, 1, a - 1)>> \o nums
        ELSE <<>>

\* lines 59-66 and their siblings: the span from the first to the last day
\* of the groups of a match, to the minute (the end is at 23:59:59)
SpanOf(g, year) ==
    IF MonthOf(g[1]) = 0 THEN NoDate
    ELSE The({ IF ~start.ok THEN (IF start.exc = "OverflowError" THEN start ELSE NoDate)
               ELSE The({ IF ~end.ok THEN (IF end.exc = "OverflowError" THEN end ELSE NoDate)
                          ELSE [ok |-> TRUE, none |-> FALSE, start |-> start.dt,
                                end |-> end.dt]
                          : end \in {MakeDate(year, MonthOf(g[1]), g[Len(g)], 23, 59)} })
               : start \in {MakeDate(year, MonthOf(g[1]), g[2], 0, 0)} })

\* the span of a match, NoDate when the pattern did not match
SpanMatch(g, year) == IF g = <<>> THEN NoDate ELSE SpanOf(g, year)

\* the first of the results that is a span or an exception, NoDate when none
RECURSIVE FirstSpan(_)
FirstSpan(results) ==
    IF results = <<>> THEN NoDate
    ELSE IF ~results[1].ok \/ ~results[1].none THEN results[1]
    ELSE FirstSpan(Tail(results))

\* date_parser._parse_span_format
_parse_span_format(s, year) ==
    The({ IF t = "" \/ Upper(t) = "TBA" THEN NoDate
          ELSE FirstSpan(<< SpanMatch(SpanGroups(t, ",", 3), year),
                            SpanMatch(SpanGroups(t, "-", 3), year),
                            SpanMatch(SpanGroups(t, "-", 2), year) >>)
          : t \in {_strip_markdown_and_suffixes(s)} })

\* date_parser._parse_single_datetime: every exception of the parse is caught
_parse_single_datetime(s, year) ==
    The({ IF t = "" \/ Upper(t) = "TBA" THEN NoDate
          ELSE The({ IF p.ok THEN p ELSE NoDate : p \in {dateutil_parse(t, year)} })
          : t \in {_strip_markdown_and_suffixes(s)} })

\* dt + timedelta(minutes=1)
AddMinute(dt) ==
    IF dt.minute < 59 THEN [dt EXCEPT !.minute = @ + 1]
    ELSE IF dt.hour < 23 THEN [dt EXCEPT !.minute = 0, !.hour = @ + 1]
    ELSE IF dt.day < DaysIn(dt.month, dt.year)
    THEN [dt EXCEPT !.minute = 0, !.hour = 0, !.day = @ + 1]
    ELSE IF dt.month < 12
    THEN [dt EXCEPT !.minute = 0, !.hour = 0, !.day = 1, !.month = @ + 1]
    ELSE [dt EXCEPT !.minute = 0, !.hour = 0, !.day = 1, !.month = 1, !.year = @ + 1]

\* date_parser.parse_due_date: a span [start, end], NoDate for None, or the
\* exception _parse_span_format lets through
parse_due_date(due_date_str, year) ==
    IF Strip(due_date_str) = "" THEN NoDate
    ELSE The({ IF ~span.ok \/ ~span.none THEN span
               ELSE The({ IF dt.none THEN NoDate
                          ELSE [ok |-> TRUE, none |-> FALSE, start |-> dt.dt,
                                end |-> AddMinute(dt.dt)]
                          : dt \in {_parse_single_datetime(Strip(due_date_str), year)} })
               : span \in {_parse_span_format(Strip(due_date_str), year)} })

\* re.sub(r"\*\*([^*]*)\*\*", r"\1", s)
RECURSIVE UnBold(_)
UnBold(s) ==
    The({ IF ~m.found THEN s ELSE m.before \o m.inner \o UnBold(m.after)
          : m \in {BoldSplit(s)} })

\* ics_generator._sanitize_assessment
_sanitize_assessment(name) ==
    IF ~Truthy(name) THEN "Assessment"
    ELSE The({ IF s = "" THEN "Assessment" ELSE s : s \in {Strip(UnBold(Strip(name)))} })

\* lines 44-61: the event of an entry and its parsed span.  The uid is a
\* function of the assessment and the start and is left out.
EventOf(e, parsed, course_name) ==
    LET assessment == _sanitize_assessment(
                          Get(e, "assessment", Get(e, "item", "Assessment")))
        wf == Get(e, "where_find", Get(e, "instructions", ""))
        ws == Get(e, "where_submit", Get(e, "submit_to", ""))
        desc_parts == (IF wf # "" THEN <<"Find: " \o wf>> ELSE <<>>)
                      \o (IF ws # "" THEN <<"Submit: " \o ws>> ELSE <<>>)
    IN  [summary     |-> course_name \o " - " \o assessment,
         description |-> IF desc_parts # <<>> THEN Join("\n", desc_parts)
                         ELSE course_name \o " - " \o assessment,
         dtstart     |-> parsed.start,
         dtend       |-> parsed.end]

\* the loop of lines 39-63 from a calendar so far: an exception of
\* parse_due_date ends the call
RECURSIVE AddEvents(_, _, _, _)
AddEvents(cal, entries, course_name, year) ==
    IF entries = <<>> THEN [ok |-> TRUE, cal |-> cal]
    ELSE The({ IF ~parsed.ok THEN parsed
               ELSE IF parsed.none THEN AddEvents(cal, Tail(entries), course_name, year)
               ELSE AddEvents([cal EXCEPT !.events =
                                   Append(@, EventOf(entries[1], parsed, course_name))],
                              Tail(entries), course_name, year)
               : parsed \in {parse_due_date(
                                Get(entries[1], "due_date",
                                    Get(entries[1], "deadline", "")), year)} })

\* ics_generator.generate_ics: the calendar that to_ical serialises
generate_ics(entries, course_name, year) ==
    AddEvents([prodid |-> "-//PolicyLens//" \o course_name \o "//EN",
               version |-> "2.0", events |-> <<>>],
              entries, course_name, year)

\* the due dates of the entries: the formats of the course tables, strings
\* that are no date, and a day list whose last number is no day
DueDates ==
    {"Jan 12, 11:59 pm", "TBA", "", "Feb 9, 10, 11", "Mar 16-18",
     "Apr 10, 11:59 pm  **No late submissions**", "Jan 19 (extended), 11:59 pm",
     "Dec 31, 11:59 pm", "Feb 28, 11:59 pm", "sometime next week",
     "Mar 16-99999999999"}

IcsEntries ==
    {[assessment |-> "hw1", due_date |-> d, where_find |-> "GitHub",
      where_submit |-> "Gradescope"] : d \in DueDates}
    \cup {[assessment |-> "**Midterm 1**", due_date |-> d, where_find |-> "",
           where_submit |-> ""] : d \in {"Feb 9, 10, 11", "TBA"}}
    \cup {[item |-> "Final exam", deadline |-> d] : d \in {"TBA", "Apr 20, 7:00 pm"}}

MaxEntries == 2

IcsYears == {2026, 2028}

RECURSIVE SeqsUpTo(_, _)
SeqsUpTo(S, n) ==
    IF n = 0 THEN {<<>>}
    ELSE SeqsUpTo(S, n - 1) \cup {Append(q, x) : q \in SeqsUpTo(S, n - 1), x \in S}

InitIcs ==
    /\ data \in SeqsUpTo(IcsEntries, MaxEntries)
    /\ pc = "idle"
    /\ call = [op |-> "none"]
    /\ cls = [kind |-> "unset"]
    /\ result = NotRun
    /\ trace = NoEvents

\* a call of parse_due_date on the due date of one entry
ParseDueDate ==
    /\ pc = "idle"
    /\ \E d \in DueDates, year \in IcsYears :
          /\ call' = [op |-> "parse_due_date", due_date |-> d, year |-> year]
          /\ result' = parse_due_date(d, year)
    /\ pc' = "done"
    /\ UNCHANGED <<data, cls, trace>>

\* main.export_ics, line 95: generate_ics on the entries of the course
GenerateIcs ==
    /\ pc = "idle"
    /\ \E course_name \in {"CPSC 330", "MDS"}, year \in IcsYears :
          /\ call' = [op |-> "generate_ics", course_name |-> course_name, year |-> year]
          /\ result' = generate_ics(data, course_name, year)
    /\ pc' = "done"
    /\ UNCHANGED <<data, cls, trace>>

NextIcs == ParseDueDate \/ GenerateIcs

SpecIcs == InitIcs /\ [][NextIcs]_vars

----------------------------------------------------------------------------
(* The claims *)

LookupDone == pc = "done" /\ call.op = "lookup_facts"

\* C1: lookup_facts with intent out_of_scope returns the empty answer and no
\* citations, for every slot set, course and data directory, without loading
\* the facts, without calling search_md and without raising.
C1_OutOfScope ==
    (LookupDone /\ call.intent = "out_of_scope")
        => /\ result = Ret("", <<>>)
           /\ trace.loads = 0
           /\ ~trace.searched

\* out_of_scope asked of an empty data directory, where a load would raise
C1_Witness ==
    /\ LookupDone
    /\ call.intent = "out_of_scope"
    /\ call.course = "STAT 1"
    /\ DOMAIN data.facts = {}
    /\ result = Ret("", <<>>)

\* C2: the search_md result replaces the structured result only when its
\* answer is non-empty and its confidence is at least 0.8; below 0.8 the
\* structured answer and citations are returned as they are.
C2_FallbackGate ==
    (pc = "done" /\ call.op = "fallback")
        => /\ (call.md.answer # "" /\ call.md.confidence >= 80)
                => result = Ret(call.md.answer, call.md.citations)
           /\ (call.md.answer = "" \/ call.md.confidence < 80)
                => result = call.structured

\* a non-empty markdown answer of confidence 0.79 is not taken
C2_Witness ==
    /\ pc = "done"
    /\ call.op = "fallback"
    /\ call.md.answer # ""
    /\ call.md.confidence = 79
    /\ call.structured.answer = ""
    /\ result = call.structured

\* the records the course's store holds for the intent, as the resolvers
\* read them; none when the store cannot be loaded
EntriesOf(d, intent, course) ==
    LET l == _load_facts(d, course)
    IN  IF l.ok THEN _get_entries(l.facts, intent, l.meta) ELSE <<>>

\* the structured result is the resolver's message that the store holds no
\* record for the intent, returned as it is
NoRecordMessage ==
    /\ call.intent \in ResolverIntents
    /\ EntriesOf(data, call.intent, call.course) = <<>>
    /\ result = trace.structured

\* C3 as stated: every non-empty answer lookup_facts returns comes with at
\* least one citation.
C3_EveryAnswerCited ==
    (LookupDone /\ result.ok /\ result.answer # "") => Len(result.citations) >= 1

\* C3: every non-empty answer lookup_facts returns comes with at least one
\* citation, except the resolver's message that the store holds no record
\* for the intent, which comes with none.
C3_AnswerFromRecordsCited ==
    (LookupDone /\ result.ok /\ result.answer # "")
        => IF NoRecordMessage THEN result.citations = <<>>
           ELSE Len(result.citations) >= 1

\* a store without due dates whose message gave way to a cited answer of the
\* rules markdown
C3_Witness ==
    /\ LookupDone
    /\ call.intent = "due_date"
    /\ EntriesOf(data, "due_date", call.course) = <<>>
    /\ trace.searched
    /\ result.ok
    /\ result # trace.structured
    /\ Len(result.citations) >= 1

\* C4: an answer a structured resolver built from at least one stored record
\* is what lookup_facts returns, with its citations, whatever text the
\* record's fields contain.
C4_RecordAnswerKept ==
    (/\ LookupDone
     /\ call.intent \in ResolverIntents
     /\ trace.structured.ok
     /\ EntriesOf(data, call.intent, call.course) # <<>>)
        => result = trace.structured

\* C5: when the structured answer is empty or the message that the store
\* holds no record, search_md is called for due_date, instructor_info,
\* coordinator, ta_list, links and general_policy, and it is called for no
\* other intent.
C5_FallbackIntents ==
    (LookupDone /\ trace.structured.ok)
        => /\ (/\ call.intent \in FallbackIntents \cup {"general_policy"}
               /\ \/ trace.structured.answer = ""
                  \/ EntriesOf(data, call.intent, call.course) = <<>>)
                => trace.searched
           /\ call.intent \notin FallbackIntents \cup {"general_policy"}
                => ~trace.searched

\* the pipeline has answered a classified question
QueryDone == pc = "done" /\ call.op = "query" /\ cls.kind # "unset"

\* the classification is acted on by its intent
Classified == cls.kind = "ok" /\ cls.confidence >= 50

\* the generic message of the pipeline for the course of the call
GenericMessage == get_fallback_message(data, call.course)

\* the slot a resolver matches its records against
SlotName(intent) ==
    IF intent = "due_date" THEN "assessment"
    ELSE IF intent = "instructor_info" THEN "section" ELSE "link_type"

\* the record e is one the slot value v asks for: by either side's
\* normalization for a due date, by the section, by the link's name or URL
Matches(intent, e, v) ==
    IF intent = "due_date"
    THEN \/ _normalize_assessment(Get2(e, "assessment", "item", "")) = _normalize_assessment(v)
         \/ DueMatches(e, _normalize_assessment(v))
    ELSE IF intent = "instructor_info" THEN Get(e, "section", "") = v
    ELSE LinkMatches(e, Lower(v))

\* the store holds records for the intent and none of them matches the slot
NoMatch(d, intent, slots, course) ==
    /\ intent \in {"due_date", "instructor_info", "links"}
    /\ SlotName(intent) \in DOMAIN slots
    /\ LET entries == EntriesOf(d, intent, course)
       IN  /\ entries # <<>>
           /\ \A i \in 1..Len(entries) :
                 entries[i].dict /\ ~Matches(intent, entries[i].f, slots[SlotName(intent)])

\* C6 as stated: with records for the intent of which none matches the slot,
\* the structured answer is empty, search_md is tried, and when its result is
\* not accepted the pipeline returns the generic message with no citations
\* and refused = false.
C6_NoMatchGeneric ==
    (QueryDone /\ Classified /\ NoMatch(data, cls.intent, cls.slots, call.course))
        => /\ trace.structured.ok
           /\ trace.structured.answer = ""
           /\ trace.searched
           /\ (trace.md.answer = "" \/ trace.md.confidence < 80)
                => /\ result.ok
                   /\ result.resp.answer = GenericMessage
                   /\ result.resp.citations = <<>>
                   /\ ~result.resp.refused

\* C6: with records for the intent of which none matches the slot, the
\* structured answer is the listing of all the records with one citation
\* each; lookup_facts returns a non-empty answer with at least one citation,
\* and the pipeline returns it with refused = false, never the generic
\* message.
C6_NoMatchListing ==
    /\ (LookupDone /\ NoMatch(data, call.intent, call.slots, call.course))
        => /\ trace.structured.ok
           /\ trace.structured.answer # ""
           /\ Len(trace.structured.citations)
                 = Len(EntriesOf(data, call.intent, call.course))
           /\ result.ok
           /\ result.answer # ""
           /\ Len(result.citations) >= 1
    /\ (QueryDone /\ Classified /\ NoMatch(data, cls.intent, cls.slots, call.course))
        => /\ Len(trace.structured.citations)
                 = Len(EntriesOf(data, cls.intent, call.course))
           /\ result.ok
           /\ ~result.resp.refused
           /\ result.resp.answer # ""
           /\ result.resp.answer # GenericMessage
           /\ Len(result.resp.citations) >= 1
           /\ trace.fallback_msgs = 0

\* a question about section 999 of a course whose two instructor records are
\* of other sections
C6_Witness ==
    /\ QueryDone
    /\ Classified
    /\ cls.intent = "instructor_info"
    /\ NoMatch(data, cls.intent, cls.slots, call.course)
    /\ Len(result.resp.citations) = 2
    /\ ~trace.searched

\* the facts file the course of the call stands for: its own when the course
\* is registered, the default course's otherwise, none in an empty registry
FileFor(d, course) ==
    LET m == get_course_facts_map(d)
    IN  IF \E i \in 1..Len(m) : m[i].display = course
        THEN MapGet(m, course)
        ELSE IF m # <<>> THEN m[1].filename ELSE None

\* C7: lookup_facts (any intent but out_of_scope) reads the course's own
\* facts file when the course is registered and the default course's file
\* when it is not or is absent, and raises FileNotFoundError exactly when
\* neither is an existing file.
C7_CourseResolution ==
    (LookupDone /\ call.intent # "out_of_scope")
        => IF FileFor(data, call.course) = None
           THEN ~result.ok /\ result.exc = "FileNotFoundError"
           ELSE /\ trace.file = FileFor(data, call.course)
                /\ ~(~result.ok /\ result.exc = "FileNotFoundError")

\* the course's store cannot be found while the classification asks for a
\* lookup
StoreMissing ==
    /\ Classified
    /\ cls.intent \notin DOMAIN _CHITCHAT_RESPONSES \cup {"out_of_scope"}
    /\ ~_load_facts(data, call.course).ok

\* C8: a classifier transport error, a classifier result of null and a
\* missing course store each give a response with refused = true, an empty
\* answer, no citations and a non-empty refusal_reason, never an exception;
\* for the two classifier failures lookup_facts is not called.
C8_FailuresRefused ==
    (QueryDone /\ (cls.kind \in {"error", "none"} \/ StoreMissing))
        => /\ result.ok
           /\ result.resp.refused
           /\ result.resp.answer = ""
           /\ result.resp.citations = <<>>
           /\ result.resp.refusal_reason \notin {None, ""}
           /\ cls.kind \in {"error", "none"} => trace.lookups = 0

\* a due-date question on an empty data directory: lookup_facts is called,
\* raises, and the response is a refusal
C8_Witness ==
    /\ QueryDone
    /\ StoreMissing
    /\ cls.intent = "due_date"
    /\ trace.lookups = 1
    /\ result.ok
    /\ result.resp.refused

\* C9: a classification of confidence below 0.5, whatever its intent, gives
\* the generic message with refused = false and no citations, and
\* lookup_facts is not called; at exactly 0.5 the classification is processed
\* by its intent: a chitchat reply, the out_of_scope message, or a lookup.
C9_LowConfidence ==
    (QueryDone /\ cls.kind = "ok")
        => /\ cls.confidence < 50
                => /\ result.ok
                   /\ result.resp.answer = GenericMessage
                   /\ ~result.resp.refused
                   /\ result.resp.citations = <<>>
                   /\ trace.lookups = 0
           /\ cls.confidence = 50
                => IF cls.intent \in DOMAIN _CHITCHAT_RESPONSES
                   THEN /\ trace.lookups = 0
                        /\ \E i \in 1..Len(_CHITCHAT_RESPONSES[cls.intent]) :
                              result.resp.answer = _CHITCHAT_RESPONSES[cls.intent][i]
                   ELSE IF cls.intent = "out_of_scope"
                   THEN trace.lookups = 0 /\ result.resp.answer = GenericMessage
                   ELSE trace.lookups = 1

\* a due-date question about hw1 classified with confidence 0.49, on a store
\* that holds the hw1 record
C9_Witness ==
    /\ QueryDone
    /\ cls.kind = "ok"
    /\ cls.confidence = 49
    /\ cls.intent = "due_date"
    /\ "assessment" \in DOMAIN cls.slots
    /\ ~NoMatch(data, cls.intent, cls.slots, call.course)
    /\ EntriesOf(data, "due_date", call.course) # <<>>
    /\ result.resp.answer = GenericMessage
    /\ trace.lookups = 0

\* the positions of the due-date records whose assessment is the requested
\* one, letter case aside
Requested(entries, assessment) ==
    {i \in 1..Len(entries) :
        /\ entries[i].dict
        /\ Lower(Get2(entries[i].f, "assessment", "item", "")) = Lower(assessment)}

\* C10: when a due-date record's assessment is the requested one, the answer
\* of lookup_facts contains that record's due date and there is exactly one
\* citation, whose source is the record's source (the first such record when
\* there are several).
C10_RequestedRecord ==
    (/\ LookupDone
     /\ call.intent = "due_date"
     /\ "assessment" \in DOMAIN call.slots
     /\ Requested(EntriesOf(data, "due_date", call.course), call.slots["assessment"]) # {})
        => LET entries == EntriesOf(data, "due_date", call.course)
               at      == Requested(entries, call.slots["assessment"])
               e       == entries[CHOOSE i \in at : \A j \in at : i <= j].f
           IN  /\ result.ok
               /\ Contains(result.answer, Get2(e, "due_date", "deadline", ""))
               /\ Len(result.citations) = 1
               /\ result.citations[1].source = Get(e, "source", "")

\* the course of the call has a facts store that loads
StoreLoads == _load_facts(data, call.course).ok

NoDueDatesMessage == "No due dates in database for this course yet."

\* lookup_facts("due_date", {}, course) on a store without due-date records
NoDueDatesAsked ==
    /\ LookupDone
    /\ call.intent = "due_date"
    /\ call.slots = EmptyMap
    /\ StoreLoads
    /\ EntriesOf(data, "due_date", call.course) = <<>>

\* C11 as stated: on a store with zero due-date records,
\* lookup_facts("due_date", {}, course) returns a non-empty "no due dates"
\* message with an empty citation list.
C11_NoDueDatesMessage ==
    NoDueDatesAsked
        => /\ result.ok
           /\ result.answer # ""
           /\ Contains(Lower(result.answer), "no due dates")
           /\ result.citations = <<>>

\* C11: on a store with zero due-date records, lookup_facts("due_date", {},
\* course) returns the non-empty "no due dates" message with an empty
\* citation list, unless the search of the rules markdown gives a non-empty
\* answer of confidence 0.8 or more: then that answer and its citations are
\* returned.
C11_NoDueDatesUnlessMarkdown ==
    NoDueDatesAsked
        => /\ trace.structured = Ret(NoDueDatesMessage, <<>>)
           /\ trace.searched
           /\ IF trace.md.answer # "" /\ trace.md.confidence >= 80
              THEN result = Ret(trace.md.answer, trace.md.citations)
              ELSE result = Ret(NoDueDatesMessage, <<>>)

\* a store without due dates next to rules without a due-date table: the
\* markdown is searched, gives nothing, and the message is returned
C11_Witness ==
    /\ NoDueDatesAsked
    /\ DOMAIN data.rules # {}
    /\ trace.searched
    /\ trace.md = NoResult
    /\ result = Ret(NoDueDatesMessage, <<>>)

\* the positions of the link records whose name or URL contains the
\* link_type, letter case aside
LinksWith(entries, link_type) ==
    {i \in 1..Len(entries) :
        /\ entries[i].dict
        /\ \/ Contains(Lower(Get2(entries[i].f, "name", "title", "")), Lower(link_type))
           \/ Contains(Lower(Get2(entries[i].f, "url", "href", "")), Lower(link_type))}

\* the line that names a link record
LinkLine(e) == Get2(e, "name", "title", "") \o ": " \o Get2(e, "url", "href", "")

\* C12: for the links intent with a link_type slot, when a stored link's
\* name or URL contains the slot value case-insensitively, the resolver's
\* answer is the line (name and URL) of one matching link, with exactly one
\* citation, and it holds the line of no other link.
C12_OneLinkLine ==
    (/\ LookupDone
     /\ call.intent = "links"
     /\ "link_type" \in DOMAIN call.slots
     /\ StoreLoads
     /\ LinksWith(EntriesOf(data, "links", call.course), call.slots["link_type"]) # {})
        => LET entries == EntriesOf(data, "links", call.course)
               at      == LinksWith(entries, call.slots["link_type"])
           IN  /\ trace.structured.ok
               /\ \E i \in at : trace.structured.answer = LinkLine(entries[i].f)
               /\ Len(trace.structured.citations) = 1
               /\ ~Contains(trace.structured.answer, "\n")
               /\ \A j \in 1..Len(entries) :
                     LinkLine(entries[j].f) # trace.structured.answer
                        => ~Contains(trace.structured.answer, LinkLine(entries[j].f))

\* the link_type Canvas asked of a store that holds Gradescope before Canvas
C12_Witness ==
    /\ LookupDone
    /\ call.intent = "links"
    /\ call.slots = Fn1("link_type", "Canvas")
    /\ StoreLoads
    /\ Len(EntriesOf(data, "links", call.course)) = 2
    /\ LinksWith(EntriesOf(data, "links", call.course), "Canvas") = {2}
    /\ trace.structured.answer = "Canvas: https://canvas.ubc.ca"
    /\ result = trace.structured

\* _get_entries has returned
EntriesDone == pc = "done" /\ call.op = "get_entries"

\* the schema block of the file the entries were read from
SchemaBlock == Get(data.facts[call.file], "_schema", EmptyMap)

\* the field_map entry of the intent of the call, empty when there is none
FieldMapOfCall == Get(Get(SchemaBlock, "field_map", EmptyMap), call.intent, EmptyMap)

\* the category the call must read: the course's key_map entry, else the
\* baseline entry, else the intent's own name
CategoryOfCall ==
    LET own == Get(SchemaBlock, "key_map", EmptyMap)
    IN  IF call.intent \in DOMAIN own THEN own[call.intent]
        ELSE IF call.intent \in DOMAIN DEFAULT_KEY_MAP THEN DEFAULT_KEY_MAP[call.intent]
        ELSE call.intent

IsRecord(item) == item.dict

\* the records (mappings) among the items x, in order; none when x is no list
RecordsOf(x) == IF x.list THEN SelectSeq(x.items, IsRecord) ELSE <<>>

\* the records _get_entries was given under the category it reads
RawOfCall ==
    LET c == Get(call.meta.key_map, call.intent, call.intent)
    IN  IF c \in DOMAIN call.facts THEN RecordsOf(call.facts[c]) ELSE <<>>

C19_OnlyMappings ==
    EntriesDone
        => /\ \A i \in 1..Len(result.entries) : result.entries[i].dict
           /\ Len(result.entries) = Len(RawOfCall)

\* C20: the category read for an intent is the course's key_map entry if
\* there is one, else the baseline entry if there is one, else the intent's
\* own name; and no key of the file that starts with an underscore is among
\* the fact categories or gives the entries.
C20_EffectiveKeyMap ==
    /\ (pc = "loaded" /\ result.ok)
        => /\ \A k \in DOMAIN result.facts : ~StartsWith(k, "_")
           /\ DOMAIN result.facts
                 = {k \in DOMAIN data.facts[result.filename] : ~StartsWith(k, "_")}
    /\ EntriesDone
        => /\ Get(call.meta.key_map, call.intent, call.intent) = CategoryOfCall
           /\ IF StartsWith(CategoryOfCall, "_") \/ CategoryOfCall \notin StoreCategories
              THEN result.entries = <<>>
              ELSE \A i \in 1..Len(result.entries) :
                      result.entries[i].dict => result.entries[i].f["cat"] = CategoryOfCall

\* a file whose key_map renames the due-date category: the records come
\* from "assignments", not from the baseline "due_dates"; ta_list and
\* general_policy asked of the same file read "tas" and "general_policy"
C20_Witness ==
    /\ EntriesDone
    /\ call.intent = "due_date"
    /\ Get(SchemaBlock, "key_map", EmptyMap) = Fn1("due_date", "assignments")
    /\ Len(result.entries) = 2
    /\ \A i \in 1..2 : result.entries[i].dict /\ result.entries[i].f["cat"] = "assignments"

\* the canonical names the spec states for the aliases
StatedNames ==
    [hw1 |-> "hw1", hw2 |-> "hw2", hw3 |-> "hw3", hw4 |-> "hw4", hw5 |-> "hw5",
     hw6 |-> "hw6", hw7 |-> "hw7", hw8 |-> "hw8", hw9 |-> "hw9",
     midterm1 |-> "midterm_1", quiz |-> "syllabus_quiz", final |-> "final_exam",
     midterm_1 |-> "midterm_1", midterm_2 |-> "midterm_2",
     syllabus_quiz |-> "syllabus_quiz", final_exam |-> "final_exam"]

\* C14: _normalize_assessment applied to its own result gives that result
\* again, for every alias and canonical name (and every other name given);
\* and the aliases map to the names stated: hw1..hw9 to themselves,
\* midterm1 to midterm_1, "midterm 2" to midterm_2, quiz to syllabus_quiz,
\* final to final_exam.
C14_NormalizeIdempotent ==
    /\ (pc = "done" /\ call.op = "normalize") => result.norm = result.once
    /\ (pc = "normalized" /\ call.op = "normalize")
        => /\ call.s \in DOMAIN StatedNames => result.norm = StatedNames[call.s]
           /\ call.s = "midterm 2" => result.norm = "midterm_2"

\* midterm1, whose canonical name midterm_1 is no key of the alias table,
\* normalized twice
C14_Witness ==
    /\ pc = "done"
    /\ call.op = "normalize"
    /\ call.s = "midterm1"
    /\ result.once = "midterm_1"
    /\ result.norm = "midterm_1"

\* the list items search_md_tas extracts for the course of the call; none
\* when the course has no rules markdown
TaItemsOfCall ==
    LET path == _course_to_md_path(data, call.course)
    IN  IF path = None THEN <<>> ELSE _extract_list_items(data.rules[path], "TAs")

\* C15: when fewer than 3 list items are extracted for the TA section, the
\* TA-list search of the markdown gives no result (empty answer, no
\* citations, confidence 0.0), and lookup_facts returns the structured
\* answer and citations.
C15_FewTaItems ==
    (/\ LookupDone
     /\ call.intent = "ta_list"
     /\ trace.searched
     /\ Len(TaItemsOfCall) < 3)
        => /\ trace.md = Md("", <<>>, 0)
           /\ result = trace.structured

\* a store without TAs next to rules whose TAs section lists two names
C15_Witness ==
    /\ LookupDone
    /\ call.intent = "ta_list"
    /\ trace.searched
    /\ Len(TaItemsOfCall) = 2
    /\ trace.md = NoResult
    /\ result = Ret("No TA list in database for this course yet.", <<>>)

\* the positions of the policy records whose title or summary contains the
\* topic, letter case aside
PoliciesWith(entries, topic) ==
    {i \in 1..Len(entries) :
        /\ entries[i].dict
        /\ \/ Contains(Lower(Get(entries[i].f, "title", "")), Lower(topic))
           \/ Contains(Lower(Get(entries[i].f, "summary", "")), Lower(topic))}

\* C16: for the general_policy intent lookup_facts answers from the course's
\* general-policy records: with a topic slot, from the first policy whose
\* title or summary contains the topic case-insensitively; without one, with
\* a list of all policy titles and one citation per policy.
C16_GeneralPolicy ==
    (/\ LookupDone
     /\ call.intent = "general_policy"
     /\ StoreLoads
     /\ EntriesOf(data, "general_policy", call.course) # <<>>)
        => LET entries == EntriesOf(data, "general_policy", call.course)
               at      == IF "topic" \in DOMAIN call.slots
                          THEN PoliciesWith(entries, call.slots["topic"]) ELSE {}
           IN  /\ result.ok
               /\ at # {}
                    => /\ Contains(result.answer,
                                   entries[CHOOSE i \in at : \A j \in at : i <= j].f["title"])
                       /\ Len(result.citations) >= 1
               /\ "topic" \notin DOMAIN call.slots
                    => /\ \A i \in 1..Len(entries) :
                             Contains(result.answer, Get(entries[i].f, "title", ""))
                       /\ Len(result.citations) = Len(entries)

\* the text names the data directory or a facts file, or is a stack trace
ExposesInternals(text) ==
    /\ text # None
    /\ \/ Contains(text, "data/")
       \/ Contains(text, "_facts.json")
       \/ Contains(text, "Traceback")

\* C17: no failure text of the query pipeline (the answer or the
\* refusal_reason of a refused response) contains an internal file path or a
\* stack trace.
C17_NoInternalPaths ==
    (QueryDone /\ result.ok /\ result.resp.refused)
        => /\ ~ExposesInternals(result.resp.answer)
           /\ ~ExposesInternals(result.resp.refusal_reason)

\* the listing of the due dates with every missing field as the empty string
DueListingWithBlanks(entries) ==
    "Deliverable due dates:\n"
        \o Join("\n", [i \in 1..Len(entries) |->
                 Get2(entries[i].f, "assessment", "item", "") \o ": "
                     \o Get2(entries[i].f, "due_date", "deadline", "")
                     \o " (" \o Get2(entries[i].f, "where_submit", "submit_to", "") \o ")"])

\* C18: lookup_facts never raises because of a malformed stored record,
\* whatever fields a record lacks and whatever an item of a category is; in
\* the list-all answer a missing field is the empty string.
C18_MalformedTolerated ==
    (LookupDone /\ StoreLoads)
        => /\ result.ok
           /\ (/\ call.intent = "due_date"
               /\ call.slots = EmptyMap
               /\ EntriesOf(data, "due_date", call.course) # <<>>
               /\ AllDicts(EntriesOf(data, "due_date", call.course)))
                => trace.structured.answer
                      = DueListingWithBlanks(EntriesOf(data, "due_date", call.course))

\* the positions of the due-date records whose assessment, normalized as the
\* slot is, equals the normalized slot
SameNormalized(entries, assessment) ==
    {i \in 1..Len(entries) :
        /\ entries[i].dict
        /\ _normalize_assessment(Get2(entries[i].f, "assessment", "item", ""))
              = _normalize_assessment(assessment)}

\* C21: due-date matching applies the same normalization to both sides: when
\* the normalized assessment of a stored record equals the normalized
\* assessment slot, the resolver selects such a record, its answer being the
\* one built from that record with that record's single citation.
C21_SameNormalization ==
    (/\ LookupDone
     /\ call.intent = "due_date"
     /\ "assessment" \in DOMAIN call.slots
     /\ StoreLoads
     /\ AllDicts(EntriesOf(data, "due_date", call.course))
     /\ SameNormalized(EntriesOf(data, "due_date", call.course),
                       call.slots["assessment"]) # {})
        => LET entries == EntriesOf(data, "due_date", call.course)
               at      == SameNormalized(entries, call.slots["assessment"])
           IN  \E i \in at : trace.structured = DueAnswer(entries[i].f)

\* no stored due-date record passes the test of the resolver for the slot
NoDueMatch(entries, slots) ==
    \/ "assessment" \notin DOMAIN slots
    \/ ~Truthy(slots["assessment"])
    \/ \A i \in 1..Len(entries) :
          ~DueMatches(entries[i].f, _normalize_assessment(slots["assessment"]))

\* C22: for the due_date intent on a non-empty store of records, when no
\* assessment slot is given or no record matches it, the resolver's answer is
\* the heading followed by one line per record in stored order, and there is
\* exactly one citation per record in the same order, the i-th citation
\* carrying the i-th record's due date and source.
C22_DueListing ==
    (/\ LookupDone
     /\ call.intent = "due_date"
     /\ StoreLoads
     /\ EntriesOf(data, "due_date", call.course) # <<>>
     /\ AllDicts(EntriesOf(data, "due_date", call.course))
     /\ NoDueMatch(EntriesOf(data, "due_date", call.course), call.slots))
        => LET entries == EntriesOf(data, "due_date", call.course)
               lines   == Split(trace.structured.answer, "\n")
               cits    == trace.structured.citations
           IN  /\ trace.structured.ok
               /\ Len(lines) = Len(entries) + 1
               /\ lines[1] = "Deliverable due dates:"
               /\ \A i \in 1..Len(entries) :
                     StartsWith(lines[i + 1],
                                Get2(entries[i].f, "assessment", "item", "?") \o ": "
                                  \o Get2(entries[i].f, "due_date", "deadline", "?") \o " (")
               /\ Len(cits) = Len(entries)
               /\ \A i \in 1..Len(entries) :
                     /\ cits[i].source = Get(entries[i].f, "source", "")
                     /\ cits[i].text = Get2(entries[i].f, "due_date", "deadline", "?")

\* an assessment no record matches, asked of a store of two due-date records
\* with different sources, the listing being what lookup_facts returns
C22_Witness ==
    /\ LookupDone
    /\ call.intent = "due_date"
    /\ call.slots = Fn1("assessment", "final")
    /\ StoreLoads
    /\ Len(EntriesOf(data, "due_date", call.course)) = 2
    /\ Len(trace.structured.citations) = 2
    /\ trace.structured.citations[1].source = "old.md"
    /\ trace.structured.citations[2].source = "syllabus.md"
    /\ result = trace.structured

\* the positions of the records of the intent that pass the resolver's test
\* for the slot of the request
Matching(intent, entries, slots) ==
    {i \in 1..Len(entries) :
        /\ entries[i].dict
        /\ IF intent = "due_date"
           THEN DueMatches(entries[i].f, _normalize_assessment(slots["assessment"]))
           ELSE IF intent = "instructor_info"
           THEN Get(entries[i].f, "section", "") = slots["section"]
           ELSE LinkMatches(entries[i].f, Lower(slots["link_type"]))}

\* the answer a resolver builds from one record
AnswerFrom(intent, e) ==
    IF intent = "due_date" THEN DueAnswer(e)
    ELSE IF intent = "instructor_info" THEN InstructorAnswer(e)
    ELSE LinkAnswer(e)

OwnPolicyDocument(d, course) ==
    Replace(Replace(FileFor(d, course), "_facts.json", ""), ".json", "") \o "_rules.md"

\* C24: for the intents lecture_schedule and reference_material, lookup_facts
\* returns the pointer message with exactly one citation, for every course
\* and every content of the facts store, and the citation's source names the
\* requested course's own policy document.
C24_PointerToOwnDocument ==
    (/\ LookupDone
     /\ call.intent \in {"lecture_schedule", "reference_material"}
     /\ StoreLoads
     /\ OwnPolicyDocument(data, call.course) \in DOMAIN data.rules)
        => /\ result.ok
           /\ StartsWith(result.answer, "See the full lecture schedule and reference material in ")
           /\ Len(result.citations) = 1
           /\ result.citations[1].source = OwnPolicyDocument(data, call.course)

\* C25: in the instructor markdown fallback, confidence 0.95 is returned only
\* when a section slot is given and the row answered from has that section;
\* when no section slot is given, a result is the listing of the rows of the
\* instructor table with confidence 0.9.
C25_InstructorConfidence ==
    (/\ LookupDone
     /\ call.intent = "instructor_info"
     /\ trace.searched)
        => /\ trace.md.confidence = 95
                => /\ "section" \in DOMAIN call.slots
                   /\ StartsWith(trace.md.answer,
                                 "Section " \o call.slots["section"] \o ": ")
           /\ ("section" \notin DOMAIN call.slots /\ trace.md.answer # "")
                => /\ trace.md.confidence = 90
                   /\ StartsWith(trace.md.answer, "Instructors:\n")

\* search_md has returned from a direct call
SearchDone == pc = "done" /\ call.op = "search_md"

\* the intents search_md has a branch for
SearchedIntents == {"due_date", "instructor_info", "coordinator", "ta_list", "links"}

\* C26: every search_md call, for any intent, slots, course and document,
\* returns a triple whose answer is empty if and only if its confidence is
\* 0.0 if and only if its citation list is empty; with no markdown document
\* for the course, or with an intent search_md has no branch for, the triple
\* is ("", [], 0.0).
C26_TripleConsistent ==
    SearchDone
        => /\ (result.answer = "") <=> (result.confidence = 0)
           /\ (result.confidence = 0) <=> (result.citations = <<>>)
           /\ result.confidence \in {0, 80, 85, 90, 95}
           /\ (\/ _course_to_md_path(data, call.course) = None
               \/ call.intent \notin SearchedIntents)
                => result = Md("", <<>>, 0)

\* a search of an existing document that finds something, for the link
\* listing at the lowest confidence
C26_Witness ==
    /\ SearchDone
    /\ call.intent = "links"
    /\ _course_to_md_path(data, call.course) # None
    /\ result.answer # ""
    /\ result.citations # <<>>
    /\ result.confidence = 80

\* the companion policy document of a facts file
CompanionOf(filename) ==
    Replace(Replace(filename, "_facts.json", ""), ".json", "") \o "_rules.md"

\* C27: for every course argument, the absent course included, the markdown
\* document the fallback consults is the companion of the facts file the
\* Schema Loader resolves for the same argument: whenever the store loads
\* and the companion of its file exists, that companion is the document
\* consulted.
C27_SameCourseFile ==
    (/\ pc = "done"
     /\ call.op \in {"lookup_facts", "search_md"}
     /\ StoreLoads
     /\ CompanionOf(_load_facts(data, call.course).filename) \in DOMAIN data.rules)
        => _course_to_md_path(data, call.course)
              = CompanionOf(_load_facts(data, call.course).filename)

\* C28: no step of a lookup_facts, search_md, get_fallback_message or
\* maybe_add_to_json call, of whichever of the concurrent requests and in
\* whatever interleaving, changes the facts store, the markdown documents or
\* the shared in-memory state (the _enabled attribute of the write-back).
C28_ReadOnly == [][data' = data /\ trace' = trace]_vars

\* a lookup_facts call stands between its resolver and its markdown search
\* while the maybe_add_to_json call of the other request has returned, the
\* _enabled attribute being absent
C28_Witness ==
    /\ data.facts # EmptyMap
    /\ ~trace.enabled
    /\ pc["r1"] = "looked"
    /\ call["r1"].op = "lookup_facts"
    /\ pc["r2"] = "done"
    /\ call["r2"].op = "maybe_add_to_json"

\* the position of an event type in the order chunk, citations, done
EventRank(type) == IF type = "chunk" THEN 0 ELSE IF type = "citations" THEN 1 ELSE 2

\* the stream of the response has ended: after its done event, or because
\* _process_query raised
StreamEnded == pc \in {"done", "failed"}

\* the contents of the chunk events, concatenated
ChunkText(events) ==
    Join("", [i \in 1..Len(events) |->
                 IF events[i].type = "chunk" THEN events[i].content ELSE ""])

\* C29: every streamed response is, in order, one or more chunk events, then
\* exactly one citations event, then exactly one done event as the last
\* event; no event is emitted before _process_query has returned the
\* complete response, and the chunk contents concatenated are the words of
\* the streamed text joined by single spaces.
C29_StreamOrder ==
    LET ev == trace.events
        n  == Len(ev)
    IN  /\ ev # <<>> => result.ok
        /\ \A i, j \in 1..n :
              i < j => /\ EventRank(ev[i].type) <= EventRank(ev[j].type)
                       /\ ev[i].type = ev[j].type => ev[i].type = "chunk"
        /\ StreamEnded
              => /\ n >= 3
                 /\ ev[n].type = "done"
                 /\ ev[n - 1].type = "citations"
                 /\ \A i \in 1..(n - 2) : ev[i].type = "chunk"
                 /\ ChunkText(ev) = Join(" ", Words(TextToStream(result.resp)))

IcsDone == pc = "done" /\ call.op = "generate_ics"

\* the due date generate_ics reads from an entry
DueOf(e) == Get(e, "due_date", Get(e, "deadline", ""))

\* the entries whose due date parse_due_date turns into a span, in order
ParsedEntries(entries, year) ==
    SelectSeq(entries, LAMBDA e : LET p == parse_due_date(DueOf(e), year)
                                  IN  p.ok /\ ~p.none)

\* C30: generate_ics returns a calendar that holds exactly one event per entry
\* whose due date can be parsed, in entry order, and none for an entry whose
\* due date cannot be parsed; with no parseable entry the calendar it returns
\* has zero events.
C30_OneEventPerParsedEntry ==
    IcsDone =>
        LET parsed == ParsedEntries(data, call.year)
        IN  /\ result.ok
            /\ Len(result.cal.events) = Len(parsed)
            /\ \A i \in 1..Len(parsed) :
                  result.cal.events[i] =
                      EventOf(parsed[i], parse_due_date(DueOf(parsed[i]), call.year),
                              call.course_name)

====
